---- MODULE Spec2Model ----
(***************************************************************************)
(* A model of the dealer-inventory vehicle scraper (scraper_pro.py and     *)
(* scraper.py): URL classification, link discovery, detail-page field      *)
(* extraction, and the validation / deduplication pipeline of run().       *)
(*                                                                         *)
(* Text is modelled as text: URLs and page texts are TLA+ strings, and the *)
(* regular expressions of the source are interpreted by a small            *)
(* backtracking matcher (Ends / Search / FindAll) that follows the         *)
(* leftmost, greedy-first order of Python's re module.                     *)
(***************************************************************************)
EXTENDS Integers, Sequences, FiniteSets, TLC

VARIABLES
    pc,          \* where the program stands (see the actions)
    inventory,   \* self.inventory_url
    cfg,         \* self.max_pages, self.max_links and the argument `limit` of run()
    platform,    \* collect_detail_links: the local `platform`
    dom,         \* the anchors the last scan of the listing page read (<<>> outside discovery)
    collected,   \* collect_detail_links: the set `collected`
    pageNo,      \* collect_detail_links: the loop variable p
    links,       \* run(): the list `links`
    idx,         \* run(): the number of links the extraction loop has handled
    rows,        \* run(): the list `rows`
    lastRec,     \* what parse_detail returned for the page `shown` (<<>> before the call)
    out,         \* run(): the rows of the final DataFrame, in order
    candidate,   \* the argument of the last likely_detail_url call
    verdict,     \* what that call returned
    shown,       \* the detail page the browser shows to the field extractors
    legacy,      \* what the last scrape_detail_page call of scraper.py returned
    session,     \* the browser session: "none", "open", "failed" or "closed"
    tries,       \* load(): the outcomes of the navigate attempts of the current call, in order
    waits,       \* load(): the seconds waited before the further attempts of the current call
    nextOk,      \* collect_detail_links: what the last _dealercom_click_next call returned (TRUE outside discovery)
    vinArg,      \* the argument of the decode_vin call
    answer,      \* what the decode service does with the request of that call
    decoded,     \* what that call returned (<<>> before it returns)
    requests,    \* the number of requests that call sent to the decode service
    visited,     \* scraper.py: the URLs passed to driver.get, in order
    errors,      \* scraper.py: the messages passed to error_callback, in order
    urlIdx       \* scrape_all_vehicles_multi: the number of base URLs handled

vars == <<pc, inventory, cfg, platform, dom, collected, pageNo, links, idx, rows, lastRec, out,
          candidate, verdict, shown, legacy, session, tries, waits, nextOk,
          vinArg, answer, decoded, requests, visited, errors, urlIdx>>

(***************************************************************************)
(* Characters and strings                                                  *)
(***************************************************************************)
Ch(s, i) == SubSeq(s, i, i)

UpperLetters == "ABCDEFGHIJKLMNOPQRSTUVWXYZ"
LowerLetters == "abcdefghijklmnopqrstuvwxyz"
DigitChars == "0123456789"

CharsOf(s) == {Ch(s, i) : i \in 1..Len(s)}

DigitSet == CharsOf(DigitChars)
UpperSet == CharsOf(UpperLetters)
LowerSet == CharsOf(LowerLetters)

IsDigit(c) == c \in DigitSet
IsUpper(c) == c \in UpperSet
IsLower(c) == c \in LowerSet
IsAlpha(c) == IsUpper(c) \/ IsLower(c)
IsWord(c) == IsAlpha(c) \/ IsDigit(c) \/ c = "_"
IsSpace(c) == c \in {" ", "\n", "\t", "\r"}

IndexIn(c, alphabet) == CHOOSE i \in 1..Len(alphabet) : Ch(alphabet, i) = c

ToLower == [c \in UpperSet |-> Ch(LowerLetters, IndexIn(c, UpperLetters))]
ToUpper == [c \in LowerSet |-> Ch(UpperLetters, IndexIn(c, LowerLetters))]
DigitOf == [c \in DigitSet |-> IndexIn(c, DigitChars) - 1]

LowerCh(c) == IF IsUpper(c) THEN ToLower[c] ELSE c
UpperCh(c) == IF IsLower(c) THEN ToUpper[c] ELSE c

\* The recursions over a text split it in halves, which keeps them shallow.
RECURSIVE MapLower(_)
\* str.lower()
MapLower(s) ==
    IF Len(s) <= 1 THEN LowerCh(s)
    ELSE MapLower(SubSeq(s, 1, Len(s) \div 2)) \o MapLower(SubSeq(s, Len(s) \div 2 + 1, Len(s)))

RECURSIVE MapUpper(_)
\* str.upper()
MapUpper(s) ==
    IF Len(s) <= 1 THEN UpperCh(s)
    ELSE MapUpper(SubSeq(s, 1, Len(s) \div 2)) \o MapUpper(SubSeq(s, Len(s) \div 2 + 1, Len(s)))

\* p occurs in s at position i
OccursAt(s, i, p) == i >= 1 /\ i + Len(p) - 1 <= Len(s) /\ SubSeq(s, i, i + Len(p) - 1) = p

\* `p in s`
Contains(s, p) == \E i \in 1..(Len(s) + 1) : OccursAt(s, i, p)

StartsWith(s, p) == OccursAt(s, 1, p)
EndsWith(s, p) == OccursAt(s, Len(s) - Len(p) + 1, p)

\* the least position >= from at which some character of the set cs stands, or Len(s) + 1
FirstOf(s, cs, from) ==
    LET hits == {i \in from..Len(s) : Ch(s, i) \in cs}
    IN IF hits = {} THEN Len(s) + 1 ELSE CHOOSE i \in hits : \A j \in hits : i <= j

RECURSIVE LStrip(_)
LStrip(s) == IF s # "" /\ IsSpace(Ch(s, 1)) THEN LStrip(SubSeq(s, 2, Len(s))) ELSE s

RECURSIVE RStrip(_)
RStrip(s) == IF s # "" /\ IsSpace(Ch(s, Len(s))) THEN RStrip(SubSeq(s, 1, Len(s) - 1)) ELSE s

\* str.strip()
Strip(s) == LStrip(RStrip(s))

RECURSIVE JoinWith(_, _)
\* sep.join(parts)
JoinWith(parts, sep) ==
    IF parts = <<>> THEN ""
    ELSE IF Len(parts) = 1 THEN parts[1]
    ELSE parts[1] \o sep \o JoinWith(Tail(parts), sep)

RECURSIVE DigitsValue(_)
\* int(s) of a string of decimal digits
DigitsValue(s) ==
    IF s = "" THEN 0
    ELSE 10 * DigitsValue(SubSeq(s, 1, Len(s) - 1)) + DigitOf[Ch(s, Len(s))]

RECURSIVE RemoveChar(_, _)
\* s.replace(c, '')
RemoveChar(s, c) ==
    IF Len(s) <= 1 THEN (IF s = c THEN "" ELSE s)
    ELSE RemoveChar(SubSeq(s, 1, Len(s) \div 2), c) \o RemoveChar(SubSeq(s, Len(s) \div 2 + 1, Len(s)), c)

(***************************************************************************)
(* Regular expressions.  A pattern is a sequence of elements; an element   *)
(* is a literal, a character class with a repetition range, a group with a *)
(* repetition range, an alternation, a word boundary, the end of the       *)
(* string, or the start / end mark of capture group 1.  hi = -1 stands for *)
(* an unbounded repetition.                                                *)
(***************************************************************************)
Lit(str) == [k |-> "lit", c |-> str, lo |-> 1, hi |-> 1, sub |-> <<>>]
Cls(name, lo, hi) == [k |-> "cls", c |-> name, lo |-> lo, hi |-> hi, sub |-> <<>>]
Grp(sub, lo, hi) == [k |-> "grp", c |-> "", lo |-> lo, hi |-> hi, sub |-> sub]
Alt(subs) == [k |-> "alt", c |-> "", lo |-> 1, hi |-> 1, sub |-> subs]
WB == [k |-> "wb", c |-> "", lo |-> 0, hi |-> 0, sub |-> <<>>]
EOS == [k |-> "eos", c |-> "", lo |-> 0, hi |-> 0, sub |-> <<>>]
CapS == [k |-> "cs", c |-> "", lo |-> 0, hi |-> 0, sub |-> <<>>]
CapE == [k |-> "ce", c |-> "", lo |-> 0, hi |-> 0, sub |-> <<>>]

\* \s*
WS0 == Cls("s", 0, -1)

\* membership of one character in a named character class
InClassCS(c, name) ==
    CASE name = "d" -> IsDigit(c)
      [] name = "s" -> IsSpace(c)
      [] name = "w" -> IsWord(c)
      [] name = "alpha" -> IsAlpha(c)
      [] name = "notd" -> ~IsDigit(c)
      [] name = "notnl" -> c # "\n"
      [] name = "notnl$" -> c \notin {"\n", "$"}
      [] name = "not/" -> c # "/"
      [] name = "s-" -> IsSpace(c) \/ c = "-"
      [] name = "vin" -> (IsUpper(c) /\ c \notin {"I", "O", "Q"}) \/ IsDigit(c)
      [] name = "d," -> IsDigit(c) \/ c = ","
      [] name = "AZ09-" -> IsUpper(c) \/ IsDigit(c) \/ c = "-"
      [] name = "colon-dash" -> c \in {":", "-"}
      [] name = "colon-s" -> c = ":" \/ IsSpace(c)
      [] name = "color" -> IsAlpha(c) \/ IsDigit(c) \/ c \in {" ", "-"}
      [] OTHER -> Len(name) = 2 /\ Ch(name, 1) = "=" /\ c = Ch(name, 2)

\* With re.I the matcher runs on the lower-cased text (see Search): a class
\* matches a character when it matches either casing of it, a literal when
\* its lower-cased form stands in the text.
InClass(c, name, ic) ==
    IF ic THEN InClassCS(c, name) \/ InClassCS(UpperCh(c), name)
    ELSE InClassCS(c, name)

LitAt(s, p, lit, ic) ==
    /\ p + Len(lit) - 1 <= Len(s)
    /\ Ch(s, p) = (IF ic THEN LowerCh(Ch(lit, 1)) ELSE Ch(lit, 1))
    /\ SubSeq(s, p, p + Len(lit) - 1) = (IF ic THEN MapLower(lit) ELSE lit)

\* \b at position p (between s[p-1] and s[p])
AtWordBoundary(s, p) ==
    LET before == p > 1 /\ IsWord(Ch(s, p - 1))
        after == p <= Len(s) /\ IsWord(Ch(s, p))
    IN before # after

\* $ : at the end, or just before a final newline
AtEnd(s, p) == p = Len(s) + 1 \/ (p = Len(s) /\ Ch(s, p) = "\n")

\* the number of consecutive characters of the class from position p, at most cap
RunLen(s, p, name, ic, cap) ==
    LET last == IF p + cap - 1 < Len(s) THEN p + cap - 1 ELSE Len(s)
        stops == {j \in p..last : ~InClass(Ch(s, j), name, ic)}
    IN IF stops = {} THEN last - p + 1
       ELSE (CHOOSE j \in stops : \A i \in stops : j <= i) - p

RECURSIVE Ends(_, _, _, _, _)
RECURSIVE ClsEnds(_, _, _, _, _, _, _)
RECURSIVE EachEnd(_, _, _, _, _, _)
RECURSIVE AltEnds(_, _, _, _, _)
RECURSIVE GrpEnds(_, _, _, _, _)
RECURSIVE GrpMore(_, _, _, _, _, _, _)

\* Every way pat[k..] matches s from the match state st = [p, cs, ce], in the
\* order in which a backtracking matcher tries them (greedy first).
Ends(s, pat, k, st, ic) ==
    IF k > Len(pat) THEN <<st>>
    ELSE LET e == pat[k] IN
      CASE e.k = "lit" ->
             IF LitAt(s, st.p, e.c, ic)
             THEN Ends(s, pat, k + 1, [st EXCEPT !.p = @ + Len(e.c)], ic)
             ELSE <<>>
        [] e.k = "cls" ->
             LET cap == IF e.hi < 0 THEN Len(s) ELSE e.hi
             IN ClsEnds(s, pat, k, st, ic, e.lo, RunLen(s, st.p, e.c, ic, cap))
        [] e.k = "wb" ->
             IF AtWordBoundary(s, st.p) THEN Ends(s, pat, k + 1, st, ic) ELSE <<>>
        [] e.k = "eos" ->
             IF AtEnd(s, st.p) THEN Ends(s, pat, k + 1, st, ic) ELSE <<>>
        [] e.k = "cs" -> Ends(s, pat, k + 1, [st EXCEPT !.cs = st.p], ic)
        [] e.k = "ce" -> Ends(s, pat, k + 1, [st EXCEPT !.ce = st.p], ic)
        [] e.k = "alt" -> EachEnd(s, pat, k, AltEnds(s, e.sub, 1, st, ic), 1, ic)
        [] e.k = "grp" -> EachEnd(s, pat, k, GrpEnds(s, e, st, 0, ic), 1, ic)

\* a class repeated hi, hi-1, ..., lo times, each followed by the rest of the pattern
ClsEnds(s, pat, k, st, ic, lo, hi) ==
    IF hi < lo THEN <<>>
    ELSE IF hi = lo THEN Ends(s, pat, k + 1, [st EXCEPT !.p = @ + lo], ic)
    ELSE LET mid == (lo + hi) \div 2
         IN ClsEnds(s, pat, k, st, ic, mid + 1, hi) \o ClsEnds(s, pat, k, st, ic, lo, mid)

\* the rest of the pattern after each of the states sts, in order
EachEnd(s, pat, k, sts, j, ic) ==
    IF j > Len(sts) THEN <<>>
    ELSE Ends(s, pat, k + 1, sts[j], ic) \o EachEnd(s, pat, k, sts, j + 1, ic)

\* the alternatives a, a+1, ... of an alternation, in order
AltEnds(s, subs, a, st, ic) ==
    IF a > Len(subs) THEN <<>>
    ELSE Ends(s, subs[a], 1, st, ic) \o AltEnds(s, subs, a + 1, st, ic)

\* a group already repeated `count` times: one more repetition first, then stop
GrpEnds(s, e, st, count, ic) ==
    LET more == IF e.hi >= 0 /\ count >= e.hi THEN <<>>
                ELSE GrpMore(s, e, Ends(s, e.sub, 1, st, ic), 1, st.p, count, ic)
    IN more \o (IF count >= e.lo THEN <<st>> ELSE <<>>)

\* the repetitions that follow each way sts[j] of matching one more repetition
\* from position p0 (a repetition that consumed nothing is not repeated)
GrpMore(s, e, sts, j, p0, count, ic) ==
    IF j > Len(sts) THEN <<>>
    ELSE (IF sts[j].p > p0 THEN GrpEnds(s, e, sts[j], count + 1, ic) ELSE <<>>)
         \o GrpMore(s, e, sts, j + 1, p0, count, ic)

NoMatch == [ok |-> FALSE, s |-> 0, e |-> 0, cs |-> 0, ce |-> 0]

\* the match object of the first way r[1] of matching from position i, if any
FirstEnd(r, i) ==
    IF r = <<>> THEN NoMatch
    ELSE [ok |-> TRUE, s |-> i, e |-> r[1].p, cs |-> r[1].cs, ce |-> r[1].ce]

\* pattern.match at position i
MatchAt(pat, s, i, ic) == FirstEnd(Ends(s, pat, 1, [p |-> i, cs |-> 0, ce |-> 0], ic), i)

\* the least element of a non-empty set of positions
Least(ps) == CHOOSE j \in ps : \A h \in ps : j <= h

\* of the match attempts ms (one per start position), the leftmost that matched
Leftmost(ms) ==
    IF \A j \in DOMAIN ms : ~ms[j].ok THEN NoMatch
    ELSE ms[Least({j \in DOMAIN ms : ms[j].ok})]

\* the leftmost match that starts at position i or later
SearchFrom(pat, s, i, ic) == Leftmost([j \in i..(Len(s) + 1) |-> MatchAt(pat, s, j, ic)])

\* re.search(pat, s), with flags=re.I when ic; the positions of the match are
\* positions of s too, since lower-casing keeps every character in place
Search(pat, s, ic) == SearchFrom(pat, IF ic THEN MapLower(s) ELSE s, 1, ic)

\* match.group(1)
Group1(m, s) == SubSeq(s, m.cs, m.ce - 1)

\* match.group(0)
Group0(m, s) == SubSeq(s, m.s, m.e - 1)

RECURSIVE FindAllFrom(_, _, _, _, _)
RECURSIVE FindAllAfter(_, _, _, _, _)
\* t is the text the matcher runs on, s the text the groups are read from
FindAllFrom(pat, s, t, i, ic) == FindAllAfter(pat, s, t, SearchFrom(pat, t, i, ic), ic)

\* group 1 of the match m, then the matches to the right of m
FindAllAfter(pat, s, t, m, ic) ==
    IF ~m.ok THEN <<>>
    ELSE <<Group1(m, s)>> \o FindAllFrom(pat, s, t, IF m.e > m.s THEN m.e ELSE m.e + 1, ic)

\* re.findall(pat, s) of a pattern with one capture group
FindAll(pat, s, ic) == FindAllFrom(pat, s, IF ic THEN MapLower(s) ELSE s, 1, ic)

(***************************************************************************)
(* scraper_pro.py: URL helpers and the URL classifier                      *)
(***************************************************************************)
\* url.split("#")[0].split("?")[0].strip()
normalize_url(url) ==
    IF url = "" THEN url
    ELSE LET a == SubSeq(url, 1, FirstOf(url, {"#"}, 1) - 1)
             b == SubSeq(a, 1, FirstOf(a, {"?"}, 1) - 1)
         IN Strip(b)

SchemeChars == CharsOf(UpperLetters) \cup CharsOf(LowerLetters) \cup CharsOf(DigitChars) \cup {"+", "-", "."}

\* urlparse(url).scheme, not lower-cased ("" when the text before the first ':' is no scheme)
UrlScheme(url) ==
    LET c == FirstOf(url, {":"}, 1)
    IN IF c <= Len(url) /\ c > 1 /\ IsAlpha(Ch(url, 1))
          /\ \A i \in 1..(c - 1) : Ch(url, i) \in SchemeChars
       THEN SubSeq(url, 1, c - 1) ELSE ""

\* urlparse(url).netloc: what follows "//" after the scheme, up to the next '/', '?' or '#'
UrlNetloc(url) ==
    LET sch == UrlScheme(url)
        rest == IF sch = "" THEN url ELSE SubSeq(url, Len(sch) + 2, Len(url))
    IN IF StartsWith(rest, "//")
       THEN SubSeq(rest, 3, FirstOf(rest, {"/", "?", "#"}, 3) - 1)
       ELSE ""

\* urlparse(url).netloc.lower()
get_domain(url) == MapLower(UrlNetloc(url))

\* a variant that compares the schemes of the two URLs, not their hosts
same_domain_scheme(base_url, url) == MapLower(UrlScheme(base_url)) = MapLower(UrlScheme(url))

same_domain(base_url, url) == get_domain(base_url) = get_domain(url)

\* urljoin(base, href) for an href that starts with '/': a network-path reference
\* ("//host/...") keeps only the scheme of base, an absolute path keeps scheme and netloc
urljoin(base, href) ==
    IF StartsWith(href, "//") THEN MapLower(UrlScheme(base)) \o ":" \o href
    ELSE MapLower(UrlScheme(base)) \o "://" \o UrlNetloc(base) \o href

blacklist_patterns == <<
    "search", "inventory/search", "filter", "sort",
    "blog", "news", "article", "post",
    "about", "contact", "service", "parts",
    "financing", "trade", "appointment",
    "dealer", "location", "hours",
    "/new/", "/models/", "/certified-preowned-program",
    "promotion", "offer", "special",
    "type/", "brand/", "category/" >>

\* r'-id\d{7,}'
IdRe == <<Lit("-id"), Cls("d", 7, -1)>>

\* r'/<section>/\d{4}-[A-Za-z]+-[A-Za-z]+-id\d+\.html?' ; `section` is itself a pattern
ShapeRe(section) ==
    <<Lit("/")>> \o section \o
    <<Lit("/"), Cls("d", 4, 4), Lit("-"), Cls("alpha", 1, -1), Lit("-"), Cls("alpha", 1, -1),
      Lit("-id"), Cls("d", 1, -1), Lit(".htm"), Cls("=l", 0, 1)>>

UsedRe == ShapeRe(<<Lit("used")>>)
DemosRe == ShapeRe(<<Lit("demo"), Cls("=s", 0, 1)>>)
NewRe == ShapeRe(<<Lit("new")>>)

\* r'\d{4}'
FourDigitsRe == <<Cls("d", 4, 4)>>

Blacklisted(u) == \E i \in 1..Len(blacklist_patterns) : Contains(u, blacklist_patterns[i])

\* a variant that tries the detail-page shapes before the blacklist
LikelyDetailShapeFirst(u) ==
    IF Search(IdRe, u, FALSE).ok
       /\ (Search(UsedRe, u, FALSE).ok \/ Search(DemosRe, u, FALSE).ok
           \/ Search(NewRe, u, FALSE).ok) THEN TRUE
    ELSE IF Blacklisted(u) THEN FALSE
    ELSE IF EndsWith(u, ".htm") /\ Search(FourDigitsRe, u, FALSE).ok /\ ~Contains(u, "search")
         THEN TRUE
    ELSE FALSE

\* the checks on u = url.lower(): blacklist, then the -id shapes, then the .htm fallback
LikelyDetail(u) ==
    IF Blacklisted(u) THEN FALSE
    ELSE IF Search(IdRe, u, FALSE).ok
            /\ (Search(UsedRe, u, FALSE).ok \/ Search(DemosRe, u, FALSE).ok
                \/ Search(NewRe, u, FALSE).ok) THEN TRUE
    ELSE IF EndsWith(u, ".htm") /\ Search(FourDigitsRe, u, FALSE).ok /\ ~Contains(u, "search")
         THEN TRUE
    ELSE FALSE

likely_detail_url(url) == LikelyDetail(MapLower(url))

(***************************************************************************)
(* More string helpers used by the field extractors                        *)
(***************************************************************************)
RECURSIVE CollapseWS(_)
\* WS_RE.sub(" ", s): every run of whitespace becomes one space
CollapseWS(s) ==
    IF s = "" THEN ""
    ELSE IF IsSpace(Ch(s, 1))
         THEN " " \o CollapseWS(LStrip(s))
         ELSE Ch(s, 1) \o CollapseWS(SubSeq(s, 2, Len(s)))

clean_text(s) == Strip(CollapseWS(s))

RECURSIVE LStripChars(_, _)
LStripChars(s, cs) == IF s # "" /\ Ch(s, 1) \in cs THEN LStripChars(SubSeq(s, 2, Len(s)), cs) ELSE s

RECURSIVE RStripChars(_, _)
RStripChars(s, cs) ==
    IF s # "" /\ Ch(s, Len(s)) \in cs THEN RStripChars(SubSeq(s, 1, Len(s) - 1), cs) ELSE s

\* s.strip(chars)
StripChars(s, cs) == LStripChars(RStripChars(s, cs), cs)

\* the least position at which p occurs in s (p is known to occur)
IndexOf(s, p) == CHOOSE i \in 1..(Len(s) + 1) : OccursAt(s, i, p) /\ \A j \in 1..(i - 1) : ~OccursAt(s, j, p)

\* s.split(p, 1)[1]
AfterFirst(s, p) == SubSeq(s, IndexOf(s, p) + Len(p), Len(s))

RECURSIVE SplitWS(_)
\* s.split(): the maximal runs of non-whitespace characters
SplitWS(s) ==
    LET t == LStrip(s)
        e == FirstOf(t, {" ", "\n", "\t", "\r"}, 1)
    IN IF t = "" THEN <<>> ELSE <<SubSeq(t, 1, e - 1)>> \o SplitWS(SubSeq(t, e, Len(t)))

\* s[:n]
Prefix(s, n) == SubSeq(s, 1, IF Len(s) < n THEN Len(s) ELSE n)

\* str.title() of a word of letters: first letter upper case, the rest lower case
TitleWord(s) == IF s = "" THEN "" ELSE UpperCh(Ch(s, 1)) \o MapLower(SubSeq(s, 2, Len(s)))

(***************************************************************************)
(* Optional values: None is the empty tuple, a value v is <<v>>            *)
(***************************************************************************)
None == <<>>
Some(v) == <<v>>
Val(o) == o[1]
\* Python truthiness of an Optional[str]
Truthy(o) == o # None /\ Val(o) # ""

(***************************************************************************)
(* A rendered page: the <title> string, the first h1/h2 text, and the      *)
(* text nodes of the body in document order, each with the class attribute *)
(* of the element that holds it.                                           *)
(***************************************************************************)
\* soup.stripped_strings: the stripped, non-empty text nodes (the title is one of them)
stripped_strings(page) ==
    LET all == <<page.title, page.h1>> \o [i \in 1..Len(page.nodes) |-> page.nodes[i].text]
    IN SelectSeq([i \in 1..Len(all) |-> Strip(all[i])], LAMBDA t : t # "")

\* " ".join(soup.stripped_strings)
full_text_of(page) == JoinWith(stripped_strings(page), " ")

\* soup.find_all(class_=re.compile(word, re.I)): get_text(strip=True) of each element
ClassTexts(page, words) ==
    LET hit(n) == \E w \in words : Contains(MapLower(n.cls), w)
        sel == SelectSeq(page.nodes, hit)
    IN [i \in 1..Len(sel) |-> Strip(sel[i].text)]

(***************************************************************************)
(* scraper_pro.py: _find_vin                                               *)
(***************************************************************************)
\* a variant that takes any 17 word characters: r"\b(\w{17})\b"
VIN_RE_Word == <<WB, CapS, Cls("w", 17, 17), CapE, WB>>

\* VIN_RE = r"\b([A-HJ-NPR-Z0-9]{17})\b"
VIN_RE == <<WB, CapS, Cls("vin", 17, 17), CapE, WB>>

\* group 1 of the match m, or None
GroupOf(m, text) == IF m.ok THEN Some(Group1(m, text)) ELSE None

\* group 1 of the first match, or None
Capture(pat, text, ic) == GroupOf(Search(pat, text, ic), text)

_find_vin(page) == Capture(VIN_RE, MapUpper(full_text_of(page)), FALSE)

(***************************************************************************)
(* scraper_pro.py: _extract_price                                          *)
(***************************************************************************)
PriceMin == 5000
PriceMax == 200000

\* (\d{1,3}(?:,\d{3})+) and (\d{1,3}(?:,\d{3})*)
NumPlus == <<CapS, Cls("d", 1, 3), Grp(<<Lit(","), Cls("d", 3, 3)>>, 1, -1), CapE>>
NumStar == <<CapS, Cls("d", 1, 3), Grp(<<Lit(","), Cls("d", 3, 3)>>, 0, -1), CapE>>

\* r'Price\s*:\s*(\d{1,3}(?:,\d{3})+)(?:\s|$|[^\d])'
PriceRe1 == <<Lit("Price"), WS0, Lit(":"), WS0>> \o NumPlus
            \o <<Alt(<< <<Cls("s", 1, 1)>>, <<EOS>>, <<Cls("notd", 1, 1)>> >>)>>
\* r'ONE\s*PRICE\s*:\s*\$\s*(\d{1,3}(?:,\d{3})*)'
PriceRe2 == <<Lit("ONE"), WS0, Lit("PRICE"), WS0, Lit(":"), WS0, Lit("$"), WS0>> \o NumStar
\* r'Price\s*:\s*\$\s*(\d{1,3}(?:,\d{3})*)'
PriceRe3 == <<Lit("Price"), WS0, Lit(":"), WS0, Lit("$"), WS0>> \o NumStar
\* r'\$\s*(\d{1,3}(?:,\d{3})*)'
DollarStarRe == <<Lit("$"), WS0>> \o NumStar
\* r'(\d{1,3}(?:,\d{3})+)'
BarePlusRe == NumPlus
\* r'\$\s*(\d{1,3}(?:,\d{3})+)'
DollarPlusRe == <<Lit("$"), WS0>> \o NumPlus

\* int(g.replace(',', ''))
Amount(g) == DigitsValue(RemoveChar(g, ","))

PriceInRange(n) == PriceMin <= n /\ n <= PriceMax

\* the price string of a captured number when its amount is in range
PriceOf(g) == IF g # None /\ PriceInRange(Amount(Val(g))) THEN Some("$" \o Val(g)) ELSE None

\* one labelled pattern: the price string when the pattern matches and the amount is in range
PriceBy(pat, text, ic) == PriceOf(Capture(pat, text, ic))

RECURSIVE FirstSome(_)
\* the first value of a sequence of optional values that is not None
FirstSome(os) == IF os = <<>> THEN None ELSE IF os[1] # None THEN os[1] ELSE FirstSome(Tail(os))

\* pattern 4, one element: with the $ sign first, then without
PriceOfElem(text) ==
    FirstSome(<<PriceBy(DollarStarRe, text, FALSE), PriceBy(BarePlusRe, text, FALSE)>>)

\* pattern 5: the in-range matches, (num, string) pairs
PriceCandidates(text) == SelectSeq(FindAll(DollarPlusRe, text, FALSE), LAMBDA g : PriceInRange(Amount(g)))

\* a last resort that takes the first candidate of the page
FirstPrice(cands) == IF cands = <<>> THEN None ELSE Some("$" \o cands[1])

\* valid.sort(reverse=True); valid[0][1] : a candidate of the greatest amount
HighestPrice(cands) ==
    IF cands = <<>> THEN None
    ELSE Some("$" \o cands[CHOOSE i \in 1..Len(cands) :
                               /\ \A j \in 1..Len(cands) : Amount(cands[j]) <= Amount(cands[i])
                               /\ \A j \in 1..(i - 1) : Amount(cands[j]) < Amount(cands[i])])

\* the patterns 1 to 5 in order, over the page text and the texts of the price elements
PriceFrom(full_text, elems) ==
    FirstSome(<<PriceBy(PriceRe1, full_text, TRUE),
                PriceBy(PriceRe2, full_text, TRUE),
                PriceBy(PriceRe3, full_text, TRUE)>>
              \o [i \in 1..Len(elems) |-> PriceOfElem(elems[i])]
              \o <<HighestPrice(PriceCandidates(full_text))>>)

_extract_price(page) == PriceFrom(full_text_of(page), ClassTexts(page, {"price"}))

(***************************************************************************)
(* scraper_pro.py: _extract_mileage                                        *)
(***************************************************************************)
KmMin == 1
KmMax == 500000

KmInRange(n) == KmMin <= n /\ n <= KmMax

\* r'<label>\s*:\s*(\d{1,3}(?:,\d{3})*)\s*km' ; `label` is itself a pattern
KmLabelRe(label) == label \o <<WS0, Lit(":"), WS0>> \o NumStar \o <<WS0, Lit("km")>>

KilometersRe == KmLabelRe(<<Lit("Kilometer"), Cls("=s", 0, 1)>>)
MileageRe == KmLabelRe(<<Lit("Mileage")>>)
OdometerRe == KmLabelRe(<<Lit("Odometer")>>)
\* r'(\d{1,3}(?:,\d{3})*)\s*km'
KmStarRe == NumStar \o <<WS0, Lit("km")>>
\* r'(\d{1,3}(?:,\d{3})+)\s*km'
KmPlusRe == NumPlus \o <<WS0, Lit("km")>>

\* the mileage string of a captured number when its amount is in range
KmOf(g) == IF g # None /\ KmInRange(Amount(Val(g))) THEN Some(Val(g) \o " km") ELSE None

KmBy(pat, text) == KmOf(Capture(pat, text, TRUE))

KmCandidates(text) == SelectSeq(FindAll(KmPlusRe, text, TRUE), LAMBDA g : KmInRange(Amount(g)))

\* valid.sort(); valid[0][1] : a candidate of the least amount
LowestKm(cands) ==
    IF cands = <<>> THEN None
    ELSE Some(cands[CHOOSE i \in 1..Len(cands) :
                       /\ \A j \in 1..Len(cands) : Amount(cands[i]) <= Amount(cands[j])
                       /\ \A j \in 1..(i - 1) : Amount(cands[i]) < Amount(cands[j])] \o " km")

\* the patterns 1 to 3 in order, over the page text and the texts of the mileage elements
KmFrom(full_text, elems) ==
    FirstSome(<<KmBy(KilometersRe, full_text),
                KmBy(MileageRe, full_text),
                KmBy(OdometerRe, full_text)>>
              \o [i \in 1..Len(elems) |-> KmBy(KmStarRe, elems[i])]
              \o <<LowestKm(KmCandidates(full_text))>>)

_extract_mileage(page) == KmFrom(full_text_of(page), ClassTexts(page, {"mileage", "kilometer"}))

(***************************************************************************)
(* scraper_pro.py: decode_vin.  The answer of the decode service is an     *)
(* input: [exc, status, results, lookup], where exc says that the request  *)
(* or the parsing of its body raised, results that the body has a          *)
(* "Results" key, and lookup maps each Variable with a non-empty Value to  *)
(* that Value.  status = 0 stands for a request that got no response.      *)
(***************************************************************************)
VinLen == 17

NoDecode == [vin_make |-> None, vin_model |-> None, vin_year |-> None,
             vin_trim |-> None, vin_body_style |-> None]

\* lookup.get(key)
LookupGet(lookup, key) == IF key \in DOMAIN lookup THEN Some(lookup[key]) ELSE None

\* the number of requests.get calls of decode_vin(vin)
DecodeRequests(vin) == IF vin = "" \/ Len(vin) # VinLen THEN 0 ELSE 1

\* decode_vin without the test of response.status_code
decode_vin_any_status(vin, resp) ==
    IF vin = "" \/ Len(vin) # VinLen THEN NoDecode
    ELSE IF resp.exc THEN NoDecode
    ELSE IF resp.results
         THEN [vin_make |-> LookupGet(resp.lookup, "Make"),
               vin_model |-> LookupGet(resp.lookup, "Model"),
               vin_year |-> LookupGet(resp.lookup, "Model Year"),
               vin_trim |-> LookupGet(resp.lookup, "Trim"),
               vin_body_style |-> LookupGet(resp.lookup, "Body Class")]
    ELSE NoDecode

decode_vin(vin, resp) ==
    IF vin = "" \/ Len(vin) # VinLen THEN NoDecode
    ELSE IF resp.exc THEN NoDecode
    ELSE IF resp.status = 200 /\ resp.results
         THEN [vin_make |-> LookupGet(resp.lookup, "Make"),
               vin_model |-> LookupGet(resp.lookup, "Model"),
               vin_year |-> LookupGet(resp.lookup, "Model Year"),
               vin_trim |-> LookupGet(resp.lookup, "Trim"),
               vin_body_style |-> LookupGet(resp.lookup, "Body Class")]
    ELSE NoDecode

(***************************************************************************)
(* scraper_pro.py: parse_detail, after the page has loaded                 *)
(***************************************************************************)
\* r"\b(19|20)\d{2}\b"
YearRe == <<WB, Alt(<< <<Lit("19")>>, <<Lit("20")>> >>), Cls("d", 2, 2), WB>>
\* r"\bStock\s*#?\s*[:\-]?\s*([A-Z0-9\-]+)\b"
StockRe == <<WB, Lit("Stock"), WS0, Cls("=#", 0, 1), WS0, Cls("colon-dash", 0, 1), WS0,
             CapS, Cls("AZ09-", 1, -1), CapE, WB>>
\* r"\b(Automatic|Manual|CVT)\b"
TransRe == <<WB, CapS, Alt(<< <<Lit("Automatic")>>, <<Lit("Manual")>>, <<Lit("CVT")>> >>), CapE, WB>>
\* r"\b(AWD|FWD|RWD|4WD)\b"
DriveRe == <<WB, CapS, Alt(<< <<Lit("AWD")>>, <<Lit("FWD")>>, <<Lit("RWD")>>, <<Lit("4WD")>> >>), CapE, WB>>
\* r"\b(\d\.\d)\s*L\b"
EngineRe == <<WB, CapS, Cls("d", 1, 1), Lit("."), Cls("d", 1, 1), CapE, WS0, Lit("L"), WB>>
\* r"\b<which>\s*Color\s*[:\-]?\s*([A-Za-z0-9 \-]+)\b"
ColorRe(which) == <<WB, Lit(which), WS0, Lit("Color"), WS0, Cls("colon-dash", 0, 1), WS0,
                    CapS, Cls("color", 1, -1), CapE, WB>>

\* a if it is not empty, else b
OrElse(a, b) == IF a # "" THEN a ELSE b

\* the title used for year / make / model / trim: <title>, else the first h1 or h2
TitleOf(page) == OrElse(clean_text(page.title), clean_text(page.h1))

\* the year of the title: group 0 of the match ym of YearRe
YearOf(title, ym) == IF title # "" /\ ym.ok THEN Some(Group0(ym, title)) ELSE None

\* the words of the title after the year: title.split(year, 1)[1].strip(" -|").split()
PartsAfter(title, year) ==
    IF year # None THEN SplitWS(StripChars(AfterFirst(title, Val(year)), {" ", "-", "|"})) ELSE <<>>

\* [year, make, model, trim] from the year and the words after it
FieldsOf(year, parts) ==
    [year |-> year,
     make |-> IF Len(parts) >= 1 THEN Some(parts[1]) ELSE None,
     model |-> IF Len(parts) >= 2 THEN Some(parts[2]) ELSE None,
     trim |-> IF Len(parts) >= 3
              THEN Some(Prefix(JoinWith(SubSeq(parts, 3, Len(parts)), " "), 80)) ELSE None]

YearPartsOf(title, year) == FieldsOf(year, PartsAfter(title, year))

\* the fields parsed from the title: [year, make, model, trim]
TitleFields(title) == YearPartsOf(title, YearOf(title, Search(YearRe, title, FALSE)))

\* VehicleRecord(source_url=url)
EmptyRecord(url) ==
    [source_url |-> url, vin |-> None, stock |-> None, year |-> None, make |-> None,
     model |-> None, trim |-> None, price |-> None, mileage |-> None,
     exterior_color |-> None, interior_color |-> None, transmission |-> None,
     drivetrain |-> None, engine |-> None,
     vin_make |-> None, vin_model |-> None, vin_year |-> None, vin_trim |-> None,
     vin_body_style |-> None]

OptMap(o, F(_)) == IF o = None THEN None ELSE Some(F(Val(o)))

\* VinFields that also stores the decoded year, make, model and trim as the
\* scraped ones
VinFieldsOverwrite(vin, resp) ==
    IF Truthy(vin) /\ Len(Val(vin)) = VinLen
    THEN [vin |-> vin, year |-> decode_vin(Val(vin), resp).vin_year,
          make |-> decode_vin(Val(vin), resp).vin_make,
          model |-> decode_vin(Val(vin), resp).vin_model,
          trim |-> decode_vin(Val(vin), resp).vin_trim] @@ decode_vin(Val(vin), resp)
    ELSE IF Truthy(vin) THEN [vin |-> None] @@ NoDecode
    ELSE [vin |-> vin] @@ NoDecode

\* rec.vin = vin and, for a VIN of 17 characters, the decoded fields; a VIN of
\* another length is discarded
VinFields(vin, resp) ==
    IF Truthy(vin) /\ Len(Val(vin)) = VinLen THEN [vin |-> vin] @@ decode_vin(Val(vin), resp)
    ELSE IF Truthy(vin) THEN [vin |-> None] @@ NoDecode
    ELSE [vin |-> vin] @@ NoDecode

\* the fields searched in the page text
TextFields(full_text) ==
    [stock |-> OptMap(Capture(StockRe, full_text, TRUE), Strip),
     exterior_color |-> OptMap(Capture(ColorRe("Exterior"), full_text, TRUE),
                               LAMBDA g : Prefix(clean_text(g), 40)),
     interior_color |-> OptMap(Capture(ColorRe("Interior"), full_text, TRUE),
                               LAMBDA g : Prefix(clean_text(g), 40)),
     transmission |-> OptMap(Capture(TransRe, full_text, TRUE), TitleWord),
     drivetrain |-> OptMap(Capture(DriveRe, full_text, TRUE), MapUpper),
     engine |-> OptMap(Capture(EngineRe, full_text, TRUE), LAMBDA g : g \o "L")]

\* the record with the given groups of fields
RecordOf(fields) == [f \in DOMAIN EmptyRecord("") |-> fields[f]]

\* the fields read from the page; vin is what _find_vin returned
ScrapedFields(url, page) ==
    [source_url |-> url, vin |-> _find_vin(page),
     price |-> _extract_price(page), mileage |-> _extract_mileage(page)]
    @@ TitleFields(TitleOf(page))
    @@ TextFields(full_text_of(page))

\* the record of the fields read from the page and of the decode of their VIN
DecodedRecord(fields, resp) == RecordOf(VinFields(fields.vin, resp) @@ fields)

parse_detail(url, page, resp) == DecodedRecord(ScrapedFields(url, page), resp)

(***************************************************************************)
(* Ordering of strings (Python compares strings by code point)             *)
(***************************************************************************)
\* the printable characters that occur in URLs here, in code-point order
AsciiOrder == " #$%&()*+,-./0123456789:;<=>?@ABCDEFGHIJKLMNOPQRSTUVWXYZ[]^_abcdefghijklmnopqrstuvwxyz{|}~"

Rank == [c \in CharsOf(AsciiOrder) |-> IndexIn(c, AsciiOrder)]

\* a < b
StrLess(a, b) ==
    LET n == IF Len(a) < Len(b) THEN Len(a) ELSE Len(b)
        diff == {i \in 1..n : Ch(a, i) # Ch(b, i)}
    IN IF diff = {} THEN Len(a) < Len(b)
       ELSE LET i == CHOOSE i \in diff : \A j \in diff : i <= j
            IN Rank[Ch(a, i)] < Rank[Ch(b, i)]

RECURSIVE SortedListDescending(_)
\* the strings of S from the greatest to the least
SortedListDescending(S) ==
    IF S = {} THEN <<>>
    ELSE LET m == CHOOSE m \in S : \A x \in S \ {m} : StrLess(x, m)
         IN <<m>> \o SortedListDescending(S \ {m})

RECURSIVE SortedList(_)
\* sorted(S) of a set of strings
SortedList(S) ==
    IF S = {} THEN <<>>
    ELSE LET m == CHOOSE m \in S : \A x \in S \ {m} : StrLess(m, x)
         IN <<m>> \o SortedList(S \ {m})

(***************************************************************************)
(* scraper_pro.py: detect_platform and _collect_links_from_dom.  A DOM is  *)
(* the sequence of the href attributes of its anchors, in document order.  *)
(***************************************************************************)
CountIf(seq, P(_)) == Len(SelectSeq(seq, P))

PlatformHtmMin == 5
PlatformIdMin == 3

\* a detect_platform that looks for the -id anchors first
detect_platform_id_first(hrefs) ==
    IF CountIf(hrefs, LAMBDA h : Contains(h, "-id")) >= PlatformIdMin THEN "d2cmedia"
    ELSE IF CountIf(hrefs, LAMBDA h : Contains(h, ".htm")) >= PlatformHtmMin THEN "dealer.com"
    ELSE "generic"

detect_platform(hrefs) ==
    IF CountIf(hrefs, LAMBDA h : Contains(h, ".htm")) >= PlatformHtmMin THEN "dealer.com"
    ELSE IF CountIf(hrefs, LAMBDA h : Contains(h, "-id")) >= PlatformIdMin THEN "d2cmedia"
    ELSE "generic"

\* the absolute, normalized URL of one anchor, or None when the anchor is skipped
\* (empty href, or neither rooted at '/' nor starting with 'http')
AbsoluteHref(inv, href) ==
    IF href = "" THEN None
    ELSE IF StartsWith(href, "/") THEN Some(normalize_url(urljoin(inv, href)))
    ELSE IF ~StartsWith(href, "http") THEN None
    ELSE Some(normalize_url(href))

\* does the anchor href of a page of `inv` go into the set `links`
AnchorKept(inv, href) ==
    LET a == AbsoluteHref(inv, href)
    IN a # None /\ same_domain(inv, Val(a)) /\ likely_detail_url(Val(a))

\* the set `links` of _collect_links_from_dom (its return value is sorted(links))
_collect_links_from_dom(inv, hrefs) ==
    {Val(AbsoluteHref(inv, hrefs[i])) : i \in {j \in 1..Len(hrefs) : AnchorKept(inv, hrefs[j])}}

(***************************************************************************)
(* scraper_pro.py: the filters of run()                                    *)
(***************************************************************************)
\* the rows of df[mask], in order
Keep(rs, mask(_)) == SelectSeq(rs, mask)

\* Filter 1: df['vin'].notna() & len == 17, or year and make both present
HasIdentity(r) ==
    \/ (r.vin # None /\ Len(Val(r.vin)) = VinLen)
    \/ (r.year # None /\ r.make # None)

Filter1(rs) == Keep(rs, HasIdentity)

\* df['vin'].fillna("").astype(str).str.upper()
NormalizeVin(r) == [r EXCEPT !.vin = Some(MapUpper(IF r.vin = None THEN "" ELSE Val(r.vin)))]

\* a variant with keep='last': the rows that have a later row of the same value
DuplicatedLast(rs, col) == {i \in 1..Len(rs) : \E j \in (i + 1)..Len(rs) : rs[j][col] = rs[i][col]}

\* a variant that is off by one: it marks the row before each duplicate
DuplicatedBefore(rs, col) ==
    {i - 1 : i \in {k \in 1..Len(rs) : \E j \in 1..(k - 1) : rs[j][col] = rs[k][col]}}

\* positions of the rows to which df.duplicated(subset=[col], keep='first') gives True
DuplicatedAt(rs, col) == {i \in 1..Len(rs) : \E j \in 1..(i - 1) : rs[j][col] = rs[i][col]}

\* the rows at the positions that satisfy ok, in order
KeepAt(rs, ok(_)) ==
    LET RECURSIVE Go(_)
        Go(i) == IF i > Len(rs) THEN <<>>
                 ELSE (IF ok(i) THEN <<rs[i]>> ELSE <<>>) \o Go(i + 1)
    IN Go(1)

\* a variant that normalizes the VINs and drops no row
Filter2KeepAll(rs) == [i \in 1..Len(rs) |-> NormalizeVin(rs[i])]

\* Filter 2: drop the later rows of a non-empty VIN
Filter2(rs) ==
    LET up == [i \in 1..Len(rs) |-> NormalizeVin(rs[i])]
        dup == DuplicatedAt(up, "vin")
    IN KeepAt(up, LAMBDA i : ~(Val(up[i].vin) # "" /\ i \in dup))

\* Filter 3: df.drop_duplicates(subset=['source_url'], keep='first')
Filter3(rs) ==
    LET dup == DuplicatedAt(rs, "source_url")
    IN KeepAt(rs, LAMBDA i : i \notin dup)

\* Filter 4: a non-empty VIN, a price or a mileage
HasUsefulData(r) ==
    \/ (r.vin # None /\ Val(r.vin) # "")
    \/ r.price # None
    \/ r.mileage # None

\* a variant that drops no row
Filter4KeepAll(rs) == rs

Filter4(rs) == Keep(rs, HasUsefulData)

\* the four filters of run(), in the order of the code
Pipeline(rs) == Filter4(Filter3(Filter2(Filter1(rs))))

(***************************************************************************)
(* scraper.py: scrape_detail_page, the fields vin, price, was_price and    *)
(* mileage_km.  `loaded` is FALSE when driver.get raised: the handler      *)
(* catches the exception and returns the empty dict.                       *)
(***************************************************************************)
\* soup.get_text(separator='\n', strip=True)
legacy_text_of(page) == JoinWith(stripped_strings(page), "\n")

\* [:\s]*\n?\s*
LabelGap == <<Cls("colon-s", 0, -1), Cls("=\n", 0, 1), WS0>>

\* r'VIN\s*#?\s*[:\s]*\n?\s*([A-HJ-NPR-Z0-9]{17})'
LegacyVinRe1 == <<Lit("VIN"), WS0, Cls("=#", 0, 1), WS0>> \o LabelGap \o <<CapS, Cls("vin", 17, 17), CapE>>
\* r'Vehicle\s*Identification\s*[:\s]*([A-HJ-NPR-Z0-9]{17})'
LegacyVinRe2 == <<Lit("Vehicle"), WS0, Lit("Identification"), WS0, Cls("colon-s", 0, -1),
                  CapS, Cls("vin", 17, 17), CapE>>
\* r'\$\s*([\d,]+)'
LegacyPriceRe == <<Lit("$"), WS0, CapS, Cls("d,", 1, -1), CapE>>
\* r'Was\s*\$?\s*([\d,]+)'
LegacyWasRe == <<Lit("Was"), WS0, Cls("=$", 0, 1), WS0, CapS, Cls("d,", 1, -1), CapE>>

\* km_patterns, in order
KmPatterns == <<
    <<Lit("Mileage")>> \o LabelGap \o <<CapS, Cls("d,", 1, -1), CapE, WS0, Grp(<<Lit("km")>>, 0, 1)>>,
    <<Lit("Odometer")>> \o LabelGap \o <<CapS, Cls("d,", 1, -1), CapE>>,
    <<Lit("Kilometer"), Cls("=s", 0, 1)>> \o LabelGap \o <<CapS, Cls("d,", 1, -1), CapE>>,
    <<CapS, Cls("d,", 1, -1), CapE, WS0, Lit("KM"), WB>>,
    <<CapS, Cls("d,", 1, -1), CapE, WS0, Lit("km"), WB>> >>

LegacyKmMin == 100

\* str.isdigit() of an ASCII string
IsDigits(v) == v # "" /\ \A i \in 1..Len(v) : IsDigit(Ch(v, i))

RECURSIVE LegacyKm(_, _)
RECURSIVE LegacyKmOr(_, _, _)
\* the value of the first pattern whose match is a number above 100
LegacyKm(text, k) ==
    IF k > Len(KmPatterns) THEN ""
    ELSE LegacyKmOr(Capture(KmPatterns[k], text, TRUE), text, k)

\* val = match.group(1).replace(',', ''); kept when val.isdigit() and int(val) > 100
LegacyKmOr(g, text, k) ==
    IF g # None /\ IsDigits(RemoveChar(Val(g), ",")) /\ DigitsValue(RemoveChar(Val(g), ",")) > LegacyKmMin
    THEN RemoveChar(Val(g), ",")
    ELSE LegacyKm(text, k + 1)

\* the makes of title_pattern
TitleMakes == <<"GMC", "Chevrolet", "Buick", "Ford", "Toyota", "Honda", "Nissan", "BMW", "Mazda",
                "Volkswagen", "Kia", "Ram", "Dodge", "Lincoln", "Jeep", "Cadillac", "Hyundai",
                "Subaru", "Audi", "Mercedes", "Lexus", "Acura", "Chrysler", "Tesla", "Mitsubishi",
                "Infiniti", "Volvo", "Porsche", "Mini", "Fiat", "Genesis", "Rivian",
                "Harley-Davidson", "Airstream", "Thor">>

\* title_pattern: r'(\d{4})\s+(GMC|...|Thor)\s+([^\n\$]{3,60})' ; group 1 is the year
LegacyTitleRe == <<CapS, Cls("d", 4, 4), CapE, Cls("s", 1, -1),
                   Alt([i \in 1..Len(TitleMakes) |-> <<Lit(TitleMakes[i])>>]),
                   Cls("s", 1, -1), Cls("notnl$", 3, 60)>>

\* r'<label>\s*[:\s]*\n?\s*([^\n]+)'
LineOf(label) == label \o <<WS0>> \o LabelGap \o <<CapS, Cls("notnl", 1, -1), CapE>>

\* r'<label>\s*[:\s]*\n?\s*(\d+)'
CountOf(label) == label \o <<WS0>> \o LabelGap \o <<CapS, Cls("d", 1, -1), CapE>>

\* r'(\d+)\s*<unit>'
CountBefore(unit) == <<CapS, Cls("d", 1, -1), CapE, WS0>> \o unit

\* r'\b<word>\b'
Word(w) == <<WB>> \o w \o <<WB>>

\* r'<label>\s*[:\s]*\n?\s*(New|Used|Certified|Pre-Owned|CPO)'
ConditionOf(label) ==
    label \o <<WS0>> \o LabelGap
    \o <<CapS, Alt(<< <<Lit("New")>>, <<Lit("Used")>>, <<Lit("Certified")>>, <<Lit("Pre-Owned")>>,
                      <<Lit("CPO")>> >>), CapE>>

condition_patterns == <<ConditionOf(<<Lit("Condition")>>),
                        ConditionOf(<<Lit("Vehicle"), WS0, Lit("Condition")>>),
                        ConditionOf(<<Lit("Status")>>)>>

\* the three searches made when no condition pattern gave a value
ConditionWords == <<
    << <<Alt(<<Word(<<Lit("Brand"), WS0, Lit("New")>>), Word(<<Lit("New"), WS0, Lit("Vehicle")>>)>>)>>,
       "New">>,
    << <<Alt(<<Word(<<Lit("Certified"), WS0, Lit("Pre-Owned")>>), Word(<<Lit("CPO")>>)>>)>>,
       "Certified Pre-Owned">>,
    << <<Alt(<<Word(<<Lit("Pre-Owned")>>), Word(<<Lit("Used"), WS0, Lit("Vehicle")>>)>>)>>, "Used">> >>

trans_patterns == <<LineOf(<<Lit("Transmission")>>), LineOf(<<Lit("Trans"), Cls("=.", 0, 1)>>)>>

TransmissionWords == << <<Word(<<Lit("Automatic")>>), "Automatic">>, <<Word(<<Lit("Manual")>>), "Manual">>,
                        <<Word(<<Lit("CVT")>>), "CVT">> >>

drive_patterns == <<LineOf(<<Lit("Drivetrain")>>), LineOf(<<Lit("Drive"), WS0, Lit("Type")>>),
                    LineOf(<<Lit("Drive")>>)>>

\* r'\b<first>[\s\-]?Wheel[\s\-]?Drive\b'
WheelDrive(first) == Word(<<Lit(first), Cls("s-", 0, 1), Lit("Wheel"), Cls("s-", 0, 1), Lit("Drive")>>)

drive_map == << <<Word(<<Lit("4x4")>>), "4x4">>, <<Word(<<Lit("4WD")>>), "4WD">>,
                <<WheelDrive("All"), "AWD">>, <<Word(<<Lit("AWD")>>), "AWD">>,
                <<WheelDrive("Front"), "FWD">>, <<Word(<<Lit("FWD")>>), "FWD">>,
                <<WheelDrive("Rear"), "RWD">>, <<Word(<<Lit("RWD")>>), "RWD">> >>

body_patterns == <<LineOf(<<Lit("Body"), WS0, Lit("Style")>>), LineOf(<<Lit("Bodystyle")>>),
                   LineOf(<<Lit("Body"), WS0, Lit("Type")>>), LineOf(<<Lit("Style")>>)>>

\* r'Colou?r'
Colour == <<Lit("Colo"), Cls("=u", 0, 1), Lit("r")>>

color_patterns == <<LineOf(<<Lit("Ext"), Grp(<<Lit("erior")>>, 0, 1), Cls("=.", 0, 1), WS0>> \o Colour),
                    LineOf(<<Lit("Exterior")>>), LineOf(Colour)>>

fuel_patterns == <<LineOf(<<Lit("Fuel"), WS0, Grp(<<Lit("Type")>>, 0, 1)>>), LineOf(<<Lit("Fuel")>>)>>

FuelWords == << <<Word(<<Lit("Diesel")>>), "Diesel">>, <<Word(<<Lit("Electric")>>), "Electric">>,
                <<Word(<<Lit("Hybrid")>>), "Hybrid">>,
                << <<Alt(<<Word(<<Lit("Gasoline")>>), Word(<<Lit("Gas")>>), Word(<<Lit("Petrol")>>)>>)>>,
                   "Gasoline">> >>

doors_patterns == <<CountOf(<<Lit("Door"), Cls("=s", 0, 1)>>),
                    CountBefore(<<Lit("door"), Cls("=s", 0, 1)>>)>>

pass_patterns == <<CountOf(<<Lit("Passenger"), Cls("=s", 0, 1)>>),
                   CountOf(<<Lit("Seating"), WS0, Grp(<<Lit("Capacity")>>, 0, 1)>>),
                   CountBefore(<<Lit("passenger"), Cls("=s", 0, 1)>>)>>

\* the test a value of a pattern loop passes to be stored: "any" stores
\* whatever the first match gives; "text" wants a value that does not start
\* with '$'; "words" also one that is not a number; "doors" and "passengers"
\* want a number of the range
Accepted(val, kind) ==
    CASE kind = "any" -> TRUE
      [] kind = "text" -> val # "" /\ ~StartsWith(val, "$")
      [] kind = "words" -> val # "" /\ ~StartsWith(val, "$") /\ ~IsDigits(val)
      [] kind = "doors" -> IsDigits(val) /\ 2 <= DigitsValue(val) /\ DigitsValue(val) <= 6
      [] kind = "passengers" -> IsDigits(val) /\ 2 <= DigitsValue(val) /\ DigitsValue(val) <= 15

RECURSIVE FirstLine(_, _, _, _, _)
RECURSIVE LineOr(_, _, _, _, _, _)
\* for pattern in pats: the value match.group(1).strip()[:n] of the first
\* pattern that matches and whose value is stored, '' when there is none
FirstLine(pats, text, n, kind, k) ==
    IF k > Len(pats) THEN ""
    ELSE LineOr(Capture(pats[k], text, TRUE), pats, text, n, kind, k)

LineOr(g, pats, text, n, kind, k) ==
    IF g # None /\ Accepted(Prefix(Strip(Val(g)), n), kind) THEN Prefix(Strip(Val(g)), n)
    ELSE FirstLine(pats, text, n, kind, k + 1)

RECURSIVE FirstFound(_, _, _)
\* the value of the first <<pattern, value>> pair whose pattern is found in the text
FirstFound(pairs, text, k) ==
    IF k > Len(pairs) THEN ""
    ELSE IF Search(pairs[k][1], text, TRUE).ok THEN pairs[k][2]
    ELSE FirstFound(pairs, text, k + 1)

\* if not data[field]: the searches for the words
ValueOr(val, pairs, text) == IF val # "" THEN val ELSE FirstFound(pairs, text, 1)

\* the condition of a matched word: val.capitalize(), or Certified Pre-Owned
ConditionValue(g) ==
    IF g = None THEN ""
    ELSE IF MapLower(Strip(Val(g))) \in {"cpo", "certified", "pre-owned"} THEN "Certified Pre-Owned"
    ELSE TitleWord(Strip(Val(g)))

\* the condition the URL of the page gives
UrlCondition(url) ==
    IF Contains(MapLower(url), "/new-inventory/") \/ Contains(MapLower(url), "/new/") THEN "New"
    ELSE IF Contains(MapLower(url), "/certified-inventory/") \/ Contains(MapLower(url), "/certified/")
    THEN "Certified Pre-Owned"
    ELSE IF Contains(MapLower(url), "/used-inventory/") \/ Contains(MapLower(url), "/used/") THEN "Used"
    ELSE ""

EmptyData(url) ==
    [url |-> url, vin |-> "", year |-> "", condition |-> "", price |-> "", was_price |-> "",
     mileage_km |-> "", transmission |-> "", drivetrain |-> "", body_style |-> "", ext_color |-> "",
     fuel_type |-> "", doors |-> "", passengers |-> ""]

\* the value of an optional string, '' for None
OrEmpty(o) == IF o # None THEN Val(o) ELSE ""

\* match.group(1).replace(',', ''), '' without a match
NoCommas(o) == IF o # None THEN RemoveChar(Val(o), ",") ELSE ""

\* the fields read from the page text; the condition is the one of the text,
\* which counts when the URL gives none
LegacyFields(url, text) ==
    [url |-> url,
     condition |-> ValueOr(ConditionValue(FirstSome([k \in 1..Len(condition_patterns) |->
                                              Capture(condition_patterns[k], text, TRUE)])),
                           ConditionWords, text),
     transmission |-> ValueOr(FirstLine(trans_patterns, text, 50, "any", 1), TransmissionWords, text),
     drivetrain |-> ValueOr(FirstLine(drive_patterns, text, 30, "text", 1), drive_map, text),
     body_style |-> FirstLine(body_patterns, text, 50, "words", 1),
     ext_color |-> FirstLine(color_patterns, text, 30, "words", 1),
     fuel_type |-> ValueOr(FirstLine(fuel_patterns, text, 30, "text", 1), FuelWords, text),
     doors |-> FirstLine(doors_patterns, text, Len(text), "doors", 1),
     passengers |-> FirstLine(pass_patterns, text, Len(text), "passengers", 1),
     vin |-> OrEmpty(FirstSome(<<Capture(LegacyVinRe1, text, TRUE), Capture(LegacyVinRe2, text, TRUE),
                                 Capture(VIN_RE, text, TRUE)>>)),
     year |-> OrEmpty(Capture(LegacyTitleRe, text, TRUE)),
     price |-> NoCommas(Capture(LegacyPriceRe, text, FALSE)),
     was_price |-> NoCommas(Capture(LegacyWasRe, text, TRUE)),
     mileage_km |-> LegacyKm(text, 1)]

\* the data of a page at the URL: the condition of the URL comes first
ScrapedData(url, fields) ==
    [fields EXCEPT !.url = url, !.condition = IF UrlCondition(url) # "" THEN UrlCondition(url) ELSE @]

\* a JSON-LD block that fills a field whenever it has a value for it
BackfillOverwrite(data, b) ==
    IF ~b.ok \/ b.type \notin {"Vehicle", "Car", "Product"} THEN data
    ELSE [data EXCEPT
            !.ext_color = IF b.color # "" THEN b.color ELSE @,
            !.fuel_type = IF b.fuelType # "" THEN b.fuelType ELSE @,
            !.body_style = IF b.bodyType # "" THEN b.bodyType ELSE @,
            !.doors = IF b.numberOfDoors # "" THEN b.numberOfDoors ELSE @,
            !.passengers = IF b.vehicleSeatingCapacity # "" THEN b.vehicleSeatingCapacity ELSE @,
            !.transmission = IF b.vehicleTransmission # "" THEN b.vehicleTransmission ELSE @,
            !.drivetrain = IF b.driveWheelConfiguration # "" THEN b.driveWheelConfiguration ELSE @,
            !.condition = IF Contains(b.itemCondition, "New") THEN "New"
                          ELSE IF Contains(b.itemCondition, "Used") THEN "Used" ELSE @]

\* one <script type="application/ld+json"> block b: ok says that json.loads
\* gave an object (the first one of a list); a key the object lacks is '',
\* the numbers are given as str() writes them
Backfill(data, b) ==
    IF ~b.ok \/ b.type \notin {"Vehicle", "Car", "Product"} THEN data
    ELSE [data EXCEPT
            !.ext_color = IF @ = "" THEN b.color ELSE @,
            !.fuel_type = IF @ = "" THEN b.fuelType ELSE @,
            !.body_style = IF @ = "" THEN b.bodyType ELSE @,
            !.doors = IF @ = "" THEN b.numberOfDoors ELSE @,
            !.passengers = IF @ = "" THEN b.vehicleSeatingCapacity ELSE @,
            !.transmission = IF @ = "" THEN b.vehicleTransmission ELSE @,
            !.drivetrain = IF @ = "" THEN b.driveWheelConfiguration ELSE @,
            !.condition = IF @ # "" THEN @
                          ELSE IF Contains(b.itemCondition, "New") THEN "New"
                          ELSE IF Contains(b.itemCondition, "Used") THEN "Used" ELSE @]

RECURSIVE JsonLdBackfill(_, _)
\* for script in soup.find_all('script', type='application/ld+json')
JsonLdBackfill(data, blocks) ==
    IF blocks = <<>> THEN data ELSE JsonLdBackfill(Backfill(data, Head(blocks)), Tail(blocks))

\* the record of a page whose text gave the fields from_text
ScrapedRecord(url, from_text, blocks) == JsonLdBackfill(ScrapedData(url, from_text), blocks)

scrape_detail_page(url, page, loaded) ==
    IF ~loaded THEN EmptyData(url)
    ELSE ScrapedRecord(url, LegacyFields(url, legacy_text_of(page)), page.ld)

(***************************************************************************)
(* scraper.py: get_vehicle_urls.  `hrefs` are the href attributes of the   *)
(* anchors of the inventory page, either absolute or starting with '/';    *)
(* `loaded` is FALSE when a browser call raised: the handler catches the   *)
(* exception and returns the empty list.                                   *)
(***************************************************************************)
\* fetch_url: the base URL with the parameter limit=99
FetchUrl(base_url) == base_url \o (IF Contains(base_url, "?") THEN "&limit=99" ELSE "?limit=99")

\* link_pattern: r'/(used|certified|new)-inventory/[^/]+/[^/]+/.*-id\d+' with re.I
LinkPattern == <<Lit("/"), Alt(<< <<Lit("used")>>, <<Lit("certified")>>, <<Lit("new")>> >>),
                 Lit("-inventory/"), Cls("not/", 1, -1), Lit("/"), Cls("not/", 1, -1), Lit("/"),
                 Cls("notnl", 0, -1), Lit("-id"), Cls("d", 1, -1)>>

\* urljoin(base_url, href) for an absolute href or one that starts with '/'
FullUrl(base_url, href) == IF StartsWith(href, "http") THEN href ELSE urljoin(base_url, href)

RECURSIVE FirstOccurrences(_)
\* the list without the repetitions of an earlier element (the set `seen`)
FirstOccurrences(us) ==
    IF us = <<>> THEN <<>>
    ELSE LET front == FirstOccurrences(SubSeq(us, 1, Len(us) - 1))
         IN IF \E i \in 1..Len(front) : front[i] = us[Len(us)] THEN front
            ELSE Append(front, us[Len(us)])

\* the full URLs of the anchors whose href matches link_pattern
MatchingUrls(base_url, hrefs) ==
    [i \in 1..Len(hrefs) |-> FullUrl(base_url, hrefs[i])]

get_vehicle_urls(base_url, hrefs, loaded) ==
    IF ~loaded THEN <<>>
    ELSE FirstOccurrences(MatchingUrls(base_url,
                            SelectSeq(hrefs, LAMBDA h : Search(LinkPattern, h, TRUE).ok)))

\* scrape_all_vehicles_multi: if data.get('vin') or data.get('price') or data.get('year')
KeptVehicle(data) == data.vin # "" \/ data.price # "" \/ data.year # ""

(***************************************************************************)
(* Bounds and inputs                                                       *)
(***************************************************************************)
MaxPages == 2      \* largest max_pages tried
MaxLinks == 2      \* largest max_links tried
MaxLimit == 2      \* largest limit passed to run()
MaxNodes == 2      \* most text nodes of a generated detail page

Inventories == {"https://cars.example.com/inventory", "https://Other.Example.com/stock/"}

\* the smallest and the largest value of each setting; limit may also be None or 0
Configs == [max_pages : {1, MaxPages}, max_links : {1, MaxLinks},
            limit : {None, Some(0), Some(1), Some(MaxLimit)}]

\* anchors of listing pages
HrefUsed == "https://cars.example.com/used/2021-Toyota-Camry-id1234567.html"
HrefDemo == "/demos/2022-Honda-Civic-id7654321.html?ref=list"
HrefCaps == "https://CARS.Example.com/used/2019-Kia-Rio-id2222222.htm#photos"
HrefOther == "https://other.example.com/used/2020-Ford-Focus-id1111111.html"
HrefOtherRel == "//other.example.com/used/2020-Ford-Focus-id1111111.html"
HrefNew == "https://cars.example.com/new/2023-Mazda-Miata-id3333333.html"
HrefSearch == "/search?make=toyota"
HrefBare == "used/2018-Audi-Quattro-id4444444.html"
HrefMail == "mailto:sales@cars.example.com"
HrefNoExt == "/vehicle-id5555555"

NavBlocks == { <<>>, <<HrefSearch, HrefMail, HrefOther>>, <<HrefOtherRel, HrefNew, HrefBare, "">> }

ListingBlocks == {
    <<>>,
    <<HrefUsed>>,
    <<HrefDemo, HrefUsed, HrefDemo>>,
    <<HrefCaps, HrefUsed, HrefDemo, HrefOther, HrefCaps>>,
    <<HrefNoExt, HrefNoExt, HrefNoExt>>,
    <<HrefCaps, HrefNoExt, HrefNoExt>> }

\* the DOMs a listing page may show
Doms == {n \o l : n \in NavBlocks, l \in ListingBlocks}

\* the Variables with a non-empty Value in the body of the decode service
DecodedAccord == [v \in {"Make", "Model", "Model Year"} |->
                    CASE v = "Make" -> "HONDA" [] v = "Model" -> "Accord" [] OTHER -> "2003"]

\* answers of the VIN decode service: a decoded VIN, a timeout, a server
\* error, a 404 whose body reads like a decoded VIN, a body that is not JSON,
\* a JSON body without "Results", and a body whose Values are all empty
DecodeResponses == {
    [exc |-> FALSE, status |-> 200, results |-> TRUE, lookup |-> DecodedAccord],
    [exc |-> TRUE, status |-> 0, results |-> FALSE, lookup |-> <<>>],
    [exc |-> FALSE, status |-> 500, results |-> FALSE, lookup |-> <<>>],
    [exc |-> FALSE, status |-> 404, results |-> TRUE, lookup |-> DecodedAccord],
    [exc |-> TRUE, status |-> 200, results |-> FALSE, lookup |-> <<>>],
    [exc |-> FALSE, status |-> 200, results |-> FALSE, lookup |-> <<>>],
    [exc |-> FALSE, status |-> 200, results |-> TRUE, lookup |-> <<>>] }

\* arguments of decode_vin: of 17 characters, shorter, longer and empty
VinPool == {"1HGCM82633A004352", "2T1BURHE5JC012345", "1hgcm82633a004352", "IOQ45678901234567",
            "", "ABC", "1HGCM82633A00435", "1HGCM82633A0043521", "12345678901234567890"}

Node(text, cls) == [text |-> text, cls |-> cls]
MkPage(title, nodes) == [title |-> title, h1 |-> "", nodes |-> nodes, ld |-> <<>>]

\* detail pages met by run()
RunPages == {
    MkPage("2021 Toyota Camry LE", <<Node("VIN: 1HGCM82633A004352", ""), Node("Price: $24,995", ""),
                                      Node("Mileage: 45,000 km", "")>>),
    MkPage("", <<Node("vin 1hgcm82633a004352", "")>>),
    MkPage("2019 Kia Rio", <<Node("$12,500", "price")>>),
    MkPage("2019 Kia Rio", <<>>),
    MkPage("", <<>>),
    MkPage("", <<Node("Price: 156,859", "")>>),
    MkPage("2020 Ford Focus", <<Node("VIN 1HGCM82633A00435I", ""), Node("1HGCM82633A0043521", ""),
                                 Node("Kilometers: 3,139 km", "")>>),
    MkPage("", <<Node("2T1BURHE5JC012345", ""), Node("$99", "price")>>) }

\* text nodes of generated detail pages
Fragments == {
    Node("Price: 156,859", ""), Node("ONE PRICE: $19,888", ""), Node("Price: $250,000", ""),
    Node("$99", ""), Node("$21,500", "sale-price"),
    Node("VIN: 1HGCM82633A004352", ""), Node("vin 1hgcm82633a00435i", ""),
    Node("Kilometers: 3,139 km", ""), Node("warranty 100,000 km", ""),
    Node("Kilometers: 900,000 km", ""), Node("Mileage: 92,968 km", "") }

RECURSIVE NodeSeqs(_)
\* the sequences of at most n distinct fragments
NodeSeqs(n) ==
    IF n = 0 THEN {<<>>}
    ELSE LET shorter == NodeSeqs(n - 1)
         IN shorter \cup {Append(q, f) : q \in {x \in shorter : Len(x) = n - 1},
                                          f \in Fragments}

\* pages that show a Kilometers figure and a Mileage figure: the Kilometers
\* figure written without a comma, and two Kilometers figures of which the
\* first is out of range
KilometersPages == {
    MkPage("", <<Node("Kilometers: 3139 km", ""), Node("Mileage: 92,968 km", "")>>),
    MkPage("", <<Node("Kilometers: 900,000 km", ""), Node("Kilometers: 3,139 km", ""),
                 Node("Mileage: 92,968 km", "")>>) }

PagePool == {MkPage(t, q) : t \in {"", "2021 Toyota Camry LE"},
                            q \in {x \in NodeSeqs(MaxNodes) : \A i, j \in 1..Len(x) : i # j => x[i] # x[j]}}
            \cup KilometersPages

\* text nodes of detail pages without a usable price label, with unlabelled prices
PriceFragments == {
    Node("Now $19,888", ""), Node("Was $21,999", ""), Node("win $250,000", ""),
    Node("$4,500 rebate", ""), Node("$19888", ""), Node("Price: $250,000", ""),
    Node("$18,500", "final-price") }

\* text nodes without a usable mileage label, with unlabelled distances
KmFragments == {
    Node("warranty 100,000 km", ""), Node("45,000 km", ""), Node("850 km", ""),
    Node("lease 600,000 km", ""), Node("Odometer: 700,000 km", ""),
    Node("12,345 km", "Mileage") }

\* text nodes with transmission and drivetrain words
GearFragments == {Node("Transmission: CVT", ""), Node("automatic 4wd", ""), Node("MANUAL Awd", "")}

\* the pages of one fragment, and of two different fragments
PagesOf(fragments) ==
    {MkPage("", <<a>>) : a \in fragments}
    \cup {MkPage("", q) : q \in {<<a, b>> : a, b \in fragments} \ {<<a, a>> : a \in fragments}}

\* the detail pages of one or two of these nodes of one kind
FieldPages == PagesOf(PriceFragments) \cup PagesOf(KmFragments) \cup PagesOf(GearFragments)

\* scraper.py: a page with text nodes and JSON-LD blocks
MkLdPage(nodes, blocks) == [title |-> "", h1 |-> "", nodes |-> nodes, ld |-> blocks]

\* a JSON-LD block that json.loads reads as an object of the given @type
LdBlock(type, color, fuelType, bodyType, numberOfDoors, vehicleSeatingCapacity, vehicleTransmission,
        driveWheelConfiguration, itemCondition) ==
    [ok |-> TRUE, type |-> type, color |-> color, fuelType |-> fuelType, bodyType |-> bodyType,
     numberOfDoors |-> numberOfDoors, vehicleSeatingCapacity |-> vehicleSeatingCapacity,
     vehicleTransmission |-> vehicleTransmission, driveWheelConfiguration |-> driveWheelConfiguration,
     itemCondition |-> itemCondition]

VehicleBlock == LdBlock("Vehicle", "Blue", "Gasoline", "Sedan", "8", "50", "Manual", "FWD",
                        "https://schema.org/NewCondition")
CarBlock == LdBlock("Car", "Green", "", "", "2", "", "", "", "https://schema.org/UsedCondition")
ProductBlock == LdBlock("Product", "", "Electric", "Coupe", "4", "5", "", "RWD", "")
OrganizationBlock == LdBlock("Organization", "Black", "Hybrid", "Van", "3", "9", "CVT", "4x4",
                             "https://schema.org/UsedCondition")
\* a block json.loads rejects, or one that is no object
BrokenBlock == [VehicleBlock EXCEPT !.ok = FALSE]

LdBlockSeqs == {<<>>, <<VehicleBlock>>, <<CarBlock>>, <<CarBlock, VehicleBlock>>,
                <<OrganizationBlock, VehicleBlock>>, <<BrokenBlock, CarBlock>>, <<OrganizationBlock>>,
                <<ProductBlock, VehicleBlock>>}

LdTexts == {
    <<>>,
    <<Node("Doors: 4", ""), Node("7 passengers", "")>>,
    <<Node("Exterior Colour: Red", ""), Node("Fuel Type: Diesel", ""), Node("Body Style: SUV", "")>>,
    <<Node("Transmission: Automatic", ""), Node("Drivetrain: AWD", ""), Node("Condition: Used", "")>>,
    <<Node("Doors: 9", ""), Node("Seating: 40", "")>>,
    <<Node("Drive: $500 off", ""), Node("Style: 2024", "")>> }

LdPages == {MkLdPage(t, b) : t \in LdTexts, b \in LdBlockSeqs}

\* a detail URL that names no condition
PlainUrl == "https://cars.example.com/vehicle/1234567"

DetailUrls == {"https://cars.example.com/used/2021-Toyota-Camry-id1234567.html", PlainUrl}

\* scraper.py: base URLs, the anchors of their inventory pages, and the
\* detail pages of the vehicles
BaseUrls == {"https://cars.example.com/inventory", "https://cars.example.com/search?type=used"}

BaseUrlLists == {<<>>} \cup {<<b>> : b \in BaseUrls} \cup {<<a, b>> : a, b \in BaseUrls}

MultiConfigs == [base_urls : BaseUrlLists, max_vehicles_per_url : {1, MaxLinks},
                 error_callback : BOOLEAN]

LegacyHrefUsed == "/used-inventory/toyota/camry/2021-Toyota-Camry-id1234567"
LegacyHrefNew == "https://cars.example.com/New-Inventory/honda/civic/2022-Honda-Civic-id7654321"

LegacyDoms == { <<>>, <<"/contact", "/used-inventory/">>,
                <<LegacyHrefUsed, "/contact", LegacyHrefUsed>>,
                <<LegacyHrefNew, LegacyHrefUsed>> }

LegacyPages == {
    MkPage("2021 Toyota Camry LE", <<Node("VIN: 1HGCM82633A004352", ""), Node("Price: $24,995", ""),
                                      Node("Mileage: 45,000 km", "")>>),
    MkPage("2019 Kia Rio", <<>>),
    MkPage("", <<>>) }

DetailUrl == "https://cars.example.com/used/2021-Toyota-Camry-id1234567.html"

\* parts of candidate URLs for the classifier
UrlHosts == {"https://cars.example.com", "https://dealer.example.com", "https://www.autoparts.example.com"}
UrlSections == {"/used/", "/new/", "/demos/", "/demo/", "/Used/", "/blog/used/"}
UrlSlugs == {"2021-Toyota-Camry", "2021-Land-Rover-Defender", "Toyota-Camry", "2021-special-Camry"}
UrlIds == {"-id1234567", "-id123456", ""}
UrlExts == {".html", ".htm", ".php"}

UrlPool == {h \o sec \o sl \o id \o e :
              h \in UrlHosts, sec \in UrlSections, sl \in UrlSlugs, id \in UrlIds, e \in UrlExts}

(***************************************************************************)
(* Tables of the pure functions over the inputs above                      *)
(***************************************************************************)
CollectTable == [inv \in Inventories, d \in Doms |-> _collect_links_from_dom(inv, d)]
PlatformTable == [d \in Doms |-> detect_platform(d)]
ParseTable == [pg \in RunPages, resp \in DecodeResponses |-> parse_detail("", pg, resp)]
\* the records parse_detail can return to run(), up to the source URL
ParsedRecords == {ParseTable[pg, resp] : pg \in RunPages, resp \in DecodeResponses}
VehicleUrlsTable == [b \in BaseUrls, d \in LegacyDoms |-> get_vehicle_urls(b, d, TRUE)]
\* the dicts scrape_detail_page can return, up to the URL
LegacyRecords == {scrape_detail_page("", pg, loaded) : pg \in LegacyPages, loaded \in BOOLEAN}
ScrapedTable == [pg \in PagePool |-> ScrapedFields(DetailUrl, pg)]
\* the field pages and JSON-LD pages that PagePool does not hold
FieldPool == (FieldPages \cup LdPages) \ PagePool

ScrapedFieldTable == [pg \in FieldPool |-> ScrapedFields(DetailUrl, pg)]
LegacyFieldTable == [pg \in FieldPool |-> LegacyFields("", legacy_text_of(pg))]

\* the fields the two extractors read from the text of a page of the pools
ScrapedOf(pg) == IF pg \in PagePool THEN ScrapedTable[pg] ELSE ScrapedFieldTable[pg]
LegacyOf(pg) == IF pg \in FieldPool THEN LegacyFieldTable[pg] ELSE LegacyFields("", legacy_text_of(pg))

(***************************************************************************)
(* run() of ProductionVehicleScraper                                       *)
(***************************************************************************)
Idle == <<>>

\* no decode_vin call and no scrape_all_vehicles_multi call is under way
DecodeIdle == vinArg = "" /\ answer = Idle /\ decoded = Idle /\ requests = 0
MultiIdle == visited = <<>> /\ errors = <<>> /\ urlIdx = 0

\* the variables of load(), of collect_detail_links and of the two other programs
otherVars == <<session, tries, waits, nextOk, vinArg, answer, decoded, requests, visited, errors, urlIdx>>

InitRun ==
    /\ pc = "new"
    /\ inventory \in Inventories
    /\ cfg \in Configs
    /\ platform = "" /\ dom = <<>> /\ collected = {} /\ pageNo = 0
    /\ links = <<>> /\ idx = 0 /\ rows = <<>> /\ lastRec = Idle /\ out = <<>>
    /\ candidate = "" /\ verdict = FALSE /\ shown = Idle /\ legacy = Idle
    /\ session = "none" /\ tries = <<>> /\ waits = <<>> /\ nextOk = TRUE
    /\ DecodeIdle /\ MultiIdle

\* the variables of the other programs
runVars == <<candidate, verdict, shown, legacy, vinArg, answer, decoded, requests, visited, errors, urlIdx>>

\* __init__: self.driver = build_driver(...); an exception of build_driver
\* leaves the constructor
Construct ==
    /\ pc = "new"
    /\ \E built \in BOOLEAN :
         /\ session' = IF built THEN "open" ELSE "failed"
         /\ pc' = IF built THEN "load" ELSE "init_raised"
    /\ UNCHANGED <<inventory, cfg, platform, dom, collected, pageNo, links, idx, rows, lastRec, out>>
    /\ UNCHANGED <<tries, waits, nextOk>>
    /\ UNCHANGED runVars

\* stop=stop_after_attempt(3)
LoadAttempts == 3

\* a load() that gives up one attempt later
LoadGivesUpLate(ts) == Len(ts) > LoadAttempts

\* the retry decorator of load(): after a failed attempt, stop and re-raise
\* when the attempts made have reached the limit
LoadGivesUp(ts) == Len(ts) >= LoadAttempts

\* wait=wait_exponential(multiplier=1, min=2, max=12), in seconds
WaitMultiplier == 1
WaitMin == 2
WaitMax == 12

\* tenacity's wait_exponential: multiplier * 2 ** exponent, kept within min and max
wait_exponential(exponent) ==
    LET result == WaitMultiplier * 2 ^ exponent
        capped == IF result < WaitMax THEN result ELSE WaitMax
    IN IF capped > WaitMin THEN capped ELSE WaitMin

\* the exponent tenacity uses after the failed attempt number n: n - 1 in
\* its current releases, n in the earlier ones
WaitExponents(n) == {n - 1, n}

\* collect_detail_links: self.load(self.inventory_url), one attempt of
\* self.driver.get per step; the attempt succeeds or raises, a raise is
\* retried after the wait until the decorator gives up, and then the
\* exception leaves run()
LoadInventory ==
    /\ pc = "load"
    /\ \E ok \in BOOLEAN :
         /\ tries' = Append(tries, ok)
         /\ pc' = IF ok THEN "detect" ELSE IF LoadGivesUp(tries') THEN "raised" ELSE "load"
         /\ IF ok \/ LoadGivesUp(tries')
            THEN waits' = waits
            ELSE \E e \in WaitExponents(Len(tries')) : waits' = Append(waits, wait_exponential(e))
    /\ UNCHANGED <<inventory, cfg, platform, dom, collected, pageNo, links, idx, rows, lastRec, out>>
    /\ UNCHANGED <<session, nextOk>>
    /\ UNCHANGED runVars

\* collect_detail_links: platform = self.detect_platform(), after load() has returned
DetectPlatform ==
    /\ pc = "detect"
    /\ \E d \in Doms : dom' = d /\ platform' = PlatformTable[d]
    /\ pageNo' = 1
    /\ tries' = <<>> /\ waits' = <<>>
    /\ pc' = "pass"
    /\ UNCHANGED <<inventory, cfg, collected, links, idx, rows, lastRec, out>>
    /\ UNCHANGED <<session, nextOk>>
    /\ UNCHANGED runVars

\* a platform whose listing is walked page by page
Paginated(p) == p \in {"dealer.com", "d2cmedia"}

\* CollectPass without the test of the max_links cap
CollectPassNoCap ==
    /\ pc = "pass"
    /\ \E d \in Doms :
         /\ dom' = d
         /\ collected' = collected \cup CollectTable[inventory, d]
         /\ pc' = IF ~Paginated(platform) THEN "sorted" ELSE "next"
    /\ UNCHANGED <<inventory, cfg, platform, pageNo, links, idx, rows, lastRec, out>>
    /\ UNCHANGED <<session, tries, waits, nextOk>>
    /\ UNCHANGED runVars

\* one pass: scroll, collect the links of the DOM, merge them, test the cap;
\* a browser call of _scroll_aggressive or _collect_links_from_dom that
\* raises leaves run()
CollectPass ==
    /\ pc = "pass"
    /\ \/ \E d \in Doms :
            /\ dom' = d
            /\ collected' = collected \cup CollectTable[inventory, d]
            /\ pc' = IF ~Paginated(platform) THEN "sorted"
                     ELSE IF Cardinality(collected') >= cfg.max_links THEN "sorted"
                     ELSE "next"
       \/ pc' = "raised" /\ UNCHANGED <<dom, collected>>
    /\ UNCHANGED <<inventory, cfg, platform, pageNo, links, idx, rows, lastRec, out>>
    /\ UNCHANGED <<session, tries, waits, nextOk>>
    /\ UNCHANGED runVars

\* _dealercom_click_next, then the next iteration of the loop over the pages
ClickNext ==
    /\ pc = "next"
    /\ \E clicked \in BOOLEAN :
         /\ nextOk' = clicked
         /\ IF clicked /\ pageNo < cfg.max_pages
            THEN pageNo' = pageNo + 1 /\ pc' = "pass"
            ELSE pageNo' = pageNo /\ pc' = "sorted"
    /\ UNCHANGED <<inventory, cfg, platform, dom, collected, links, idx, rows, lastRec, out>>
    /\ UNCHANGED <<session, tries, waits>>
    /\ UNCHANGED runVars

\* links = sorted(collected); if limit: links = links[:limit]
LimitLinks(ls, limit) ==
    IF limit # None /\ Val(limit) # 0
    THEN SubSeq(ls, 1, IF Val(limit) < Len(ls) THEN Val(limit) ELSE Len(ls))
    ELSE ls

StartExtract ==
    /\ pc = "sorted"
    /\ links' = LimitLinks(SortedList(collected), cfg.limit)
    /\ idx' = 0
    /\ dom' = <<>>
    /\ nextOk' = TRUE
    /\ pc' = "extract"
    /\ UNCHANGED <<inventory, cfg, platform, collected, pageNo, rows, lastRec, out>>
    /\ UNCHANGED <<session, tries, waits>>
    /\ UNCHANGED runVars

\* an extraction loop that a failed navigation ends: no stub, no further URL
ParseNextAbort ==
    /\ pc = "extract"
    /\ idx < Len(links)
    /\ \/ /\ \E rec \in ParsedRecords :
               rows' = Append(rows, [rec EXCEPT !.source_url = links[idx + 1]])
          /\ idx' = idx + 1
       \/ rows' = rows /\ idx' = Len(links)
    /\ UNCHANGED <<pc, inventory, cfg, platform, dom, collected, pageNo, links, lastRec, out>>
    /\ UNCHANGED <<session, tries, waits, nextOk>>
    /\ UNCHANGED runVars

\* one iteration of the extraction loop: parse_detail returns a record, or the
\* navigation fails and the handler appends the stub VehicleRecord(source_url=u)
ParseNext ==
    /\ pc = "extract"
    /\ idx < Len(links)
    /\ \/ \E rec \in ParsedRecords :
            rows' = Append(rows, [rec EXCEPT !.source_url = links[idx + 1]])
       \/ rows' = Append(rows, EmptyRecord(links[idx + 1]))
    /\ idx' = idx + 1
    /\ UNCHANGED <<pc, inventory, cfg, platform, dom, collected, pageNo, links, lastRec, out>>
    /\ UNCHANGED <<session, tries, waits, nextOk>>
    /\ UNCHANGED runVars

\* df = pd.DataFrame(rows) and the four filters; with no rows the frame has no
\* column 'vin' and df['vin'] raises KeyError
RunFilters ==
    /\ pc = "extract"
    /\ idx = Len(links)
    /\ IF rows = <<>>
       THEN pc' = "raised" /\ out' = out
       ELSE pc' = "done" /\ out' = Pipeline(rows)
    /\ UNCHANGED <<inventory, cfg, platform, dom, collected, pageNo, links, idx, rows, lastRec>>
    /\ UNCHANGED <<session, tries, waits, nextOk>>
    /\ UNCHANGED runVars

Next ==
    \/ Construct
    \/ LoadInventory
    \/ DetectPlatform
    \/ CollectPass
    \/ ClickNext
    \/ StartExtract
    \/ ParseNext
    \/ RunFilters

Spec == InitRun /\ [][Next]_vars

(***************************************************************************)
(* The URL classifier applied to candidate URLs                            *)
(***************************************************************************)
InitClassify ==
    /\ pc = "classify"
    /\ candidate \in UrlPool
    /\ verdict = FALSE
    /\ inventory = "" /\ cfg = Idle /\ platform = "" /\ dom = <<>> /\ collected = {} /\ pageNo = 0
    /\ links = <<>> /\ idx = 0 /\ rows = <<>> /\ lastRec = Idle /\ out = <<>>
    /\ shown = Idle /\ legacy = Idle
    /\ session = "none" /\ tries = <<>> /\ waits = <<>> /\ nextOk = TRUE
    /\ DecodeIdle /\ MultiIdle

Classify ==
    /\ pc = "classify"
    /\ verdict' = likely_detail_url(candidate)
    /\ pc' = "classified"
    /\ UNCHANGED <<inventory, cfg, platform, dom, collected, pageNo, links, idx, rows, lastRec, out,
                   candidate, shown, legacy>>
    /\ UNCHANGED otherVars

NextClassify == Classify

SpecClassify == InitClassify /\ [][NextClassify]_vars

(***************************************************************************)
(* The field extractors applied to generated detail pages                  *)
(***************************************************************************)
InitExtract ==
    /\ pc = "page"
    /\ shown \in PagePool
    /\ lastRec = Idle /\ legacy = Idle
    /\ inventory = "" /\ cfg = Idle /\ platform = "" /\ dom = <<>> /\ collected = {} /\ pageNo = 0
    /\ links = <<>> /\ idx = 0 /\ rows = <<>> /\ out = <<>>
    /\ candidate = "" /\ verdict = FALSE
    /\ session = "open" /\ tries = <<>> /\ waits = <<>> /\ nextOk = TRUE
    /\ DecodeIdle /\ MultiIdle

\* scraper_pro.py: parse_detail on the page shown
ParsePro ==
    /\ pc = "page"
    /\ \E resp \in DecodeResponses : lastRec' = Some(DecodedRecord(ScrapedOf(shown), resp))
    /\ pc' = "parsed"
    /\ UNCHANGED <<inventory, cfg, platform, dom, collected, pageNo, links, idx, rows, out,
                   candidate, verdict, shown, legacy>>
    /\ UNCHANGED otherVars

\* scraper.py: scrape_detail_page on the page shown
ScrapeLegacy ==
    /\ pc = "page"
    /\ \E url \in DetailUrls, loaded \in BOOLEAN :
         legacy' = Some(IF loaded THEN ScrapedRecord(url, LegacyOf(shown), shown.ld)
                        ELSE scrape_detail_page(url, shown, loaded))
    /\ pc' = "scraped"
    /\ UNCHANGED <<inventory, cfg, platform, dom, collected, pageNo, links, idx, rows, lastRec, out,
                   candidate, verdict, shown>>
    /\ UNCHANGED otherVars

NextExtract == ParsePro \/ ScrapeLegacy

SpecExtract == InitExtract /\ [][NextExtract]_vars

\* the same two extractors on the pages of FieldPages
InitFields ==
    /\ pc = "page"
    /\ shown \in FieldPool
    /\ lastRec = Idle /\ legacy = Idle
    /\ inventory = "" /\ cfg = Idle /\ platform = "" /\ dom = <<>> /\ collected = {} /\ pageNo = 0
    /\ links = <<>> /\ idx = 0 /\ rows = <<>> /\ out = <<>>
    /\ candidate = "" /\ verdict = FALSE
    /\ session = "open" /\ tries = <<>> /\ waits = <<>> /\ nextOk = TRUE
    /\ DecodeIdle /\ MultiIdle

SpecFields == InitFields /\ [][NextExtract]_vars

(***************************************************************************)
(* scraper.py: scrape_all_vehicles_multi.  cfg holds its arguments         *)
(* base_urls and max_vehicles_per_url and whether an error_callback was    *)
(* given; links is vehicle_urls, idx counts the vehicles of the current    *)
(* base URL that were scraped, rows is all_vehicles, out the list returned.*)
(***************************************************************************)
InitMulti ==
    /\ pc = "start"
    /\ cfg \in MultiConfigs
    /\ session = "none"
    /\ MultiIdle
    /\ inventory = "" /\ platform = "" /\ dom = <<>> /\ collected = {} /\ pageNo = 0
    /\ links = <<>> /\ idx = 0 /\ rows = <<>> /\ lastRec = Idle /\ out = <<>>
    /\ candidate = "" /\ verdict = FALSE /\ shown = Idle /\ legacy = Idle
    /\ tries = <<>> /\ waits = <<>> /\ nextOk = TRUE
    /\ DecodeIdle

\* the variables scrape_all_vehicles_multi does not use
multiFrame == <<inventory, cfg, platform, dom, collected, pageNo, lastRec, candidate, verdict, shown,
                legacy, tries, waits, nextOk, vinArg, answer, decoded, requests>>

\* a scrape_all_vehicles_multi that goes on to the base URLs without a driver
CreateDriverGoOn ==
    /\ pc = "start"
    /\ \E created \in BOOLEAN :
         /\ session' = IF created THEN "open" ELSE "failed"
         /\ errors' = IF ~created /\ cfg.error_callback
                       THEN Append(errors, "Failed to create Chrome driver") ELSE errors
    /\ pc' = "urls"
    /\ UNCHANGED <<links, idx, rows, out, visited, urlIdx>>
    /\ UNCHANGED multiFrame

\* driver = create_driver(); without a driver: error_callback, return []
CreateDriver ==
    /\ pc = "start"
    /\ \E created \in BOOLEAN :
         IF created
         THEN session' = "open" /\ pc' = "urls" /\ errors' = errors
         ELSE /\ session' = "failed"
              /\ errors' = IF cfg.error_callback
                            THEN Append(errors, "Failed to create Chrome driver") ELSE errors
              /\ pc' = "returned"
    /\ UNCHANGED <<links, idx, rows, out, visited, urlIdx>>
    /\ UNCHANGED multiFrame

\* vehicle_urls = get_vehicle_urls(driver, base_url); without URLs the loop
\* goes on to the next base URL, else the list is cut to max_vehicles_per_url
GetVehicleUrls ==
    /\ pc = "urls"
    /\ urlIdx < Len(cfg.base_urls)
    /\ visited' = Append(visited, FetchUrl(cfg.base_urls[urlIdx + 1]))
    /\ \E found \in {VehicleUrlsTable[cfg.base_urls[urlIdx + 1], d] : d \in LegacyDoms} \cup {<<>>} :
         IF found = <<>>
         THEN urlIdx' = urlIdx + 1 /\ pc' = "urls" /\ links' = links /\ idx' = idx
         ELSE /\ links' = SubSeq(found, 1, IF cfg.max_vehicles_per_url < Len(found)
                                            THEN cfg.max_vehicles_per_url ELSE Len(found))
              /\ idx' = 0 /\ urlIdx' = urlIdx /\ pc' = "vehicles"
    /\ UNCHANGED <<session, rows, out, errors>>
    /\ UNCHANGED multiFrame

\* data = scrape_detail_page(driver, url, ...); kept with a VIN, a price or a year
ScrapeVehicle ==
    /\ pc = "vehicles"
    /\ idx < Len(links)
    /\ visited' = Append(visited, links[idx + 1])
    /\ \E data \in LegacyRecords :
         rows' = IF KeptVehicle(data) THEN Append(rows, [data EXCEPT !.url = links[idx + 1]]) ELSE rows
    /\ idx' = idx + 1
    /\ UNCHANGED <<pc, session, links, out, errors, urlIdx>>
    /\ UNCHANGED multiFrame

\* the end of the loop over vehicle_urls: the next base URL
NextBaseUrl ==
    /\ pc = "vehicles"
    /\ idx = Len(links)
    /\ urlIdx' = urlIdx + 1
    /\ pc' = "urls"
    /\ UNCHANGED <<session, links, idx, rows, out, visited, errors>>
    /\ UNCHANGED multiFrame

\* the end of the loop over base_urls: driver.quit(); return all_vehicles
ReturnVehicles ==
    /\ pc = "urls"
    /\ urlIdx = Len(cfg.base_urls)
    /\ session' = "closed"
    /\ out' = rows
    /\ pc' = "returned"
    /\ UNCHANGED <<links, idx, rows, visited, errors, urlIdx>>
    /\ UNCHANGED multiFrame

NextMulti ==
    \/ CreateDriver
    \/ GetVehicleUrls
    \/ ScrapeVehicle
    \/ NextBaseUrl
    \/ ReturnVehicles

\* the two programs that start by creating a browser session: run() of
\* scraper_pro.py and scrape_all_vehicles_multi of scraper.py
InitSession == InitRun \/ InitMulti

NextSession == Next \/ NextMulti

SpecSession == InitSession /\ [][NextSession]_vars

(***************************************************************************)
(* decode_vin applied to VINs and answers of the decode service            *)
(***************************************************************************)
InitDecode ==
    /\ pc = "decode"
    /\ vinArg \in VinPool
    /\ answer \in DecodeResponses
    /\ decoded = Idle /\ requests = 0
    /\ inventory = "" /\ cfg = Idle /\ platform = "" /\ dom = <<>> /\ collected = {} /\ pageNo = 0
    /\ links = <<>> /\ idx = 0 /\ rows = <<>> /\ lastRec = Idle /\ out = <<>>
    /\ candidate = "" /\ verdict = FALSE /\ shown = Idle /\ legacy = Idle
    /\ session = "none" /\ tries = <<>> /\ waits = <<>> /\ nextOk = TRUE
    /\ MultiIdle

\* one call of decode_vin
Decode ==
    /\ pc = "decode"
    /\ decoded' = Some(decode_vin(vinArg, answer))
    /\ requests' = requests + DecodeRequests(vinArg)
    /\ pc' = "decoded"
    /\ UNCHANGED <<inventory, cfg, platform, dom, collected, pageNo, links, idx, rows, lastRec, out,
                   candidate, verdict, shown, legacy, session, tries, waits, nextOk, vinArg, answer,
                   visited, errors, urlIdx>>

NextDecode == Decode

SpecDecode == InitDecode /\ [][NextDecode]_vars

(***************************************************************************)
(* Properties                                                              *)
(***************************************************************************)
\* the VIN of a record as Filter 2 compares it: upper case, '' when absent
VinText(r) == IF r.vin = None THEN "" ELSE MapUpper(Val(r.vin))

\* the characters a VIN may hold: A-Z and 0-9 without I, O and Q
VinAlphabet == (UpperSet \cup DigitSet) \ {"I", "O", "Q"}

\* an optional VIN that is absent, empty, or 17 characters of the VIN alphabet
WellFormedVin(o) ==
    \/ o = None
    \/ Val(o) = ""
    \/ (Len(Val(o)) = 17 /\ \A i \in 1..Len(Val(o)) : Ch(Val(o), i) \in VinAlphabet)

\* a record with no VIN, no price, no mileage
NoUsefulData(r) == VinText(r) = "" /\ r.price = None /\ r.mileage = None

\* C1: the dataset run() returns holds no two records with the same non-empty
\* VIN (compared in upper case) and no two records with the same source URL.
C1_NoDuplicates ==
    pc = "done" =>
      \A i, j \in 1..Len(out) :
        i # j => /\ (VinText(out[i]) # "" => VinText(out[i]) # VinText(out[j]))
                 /\ out[i].source_url # out[j].source_url

\* two raw records carry the same VIN, and the dataset still holds two records
C1_Witness ==
    /\ pc = "done"
    /\ Len(out) >= 2
    /\ \E i, j \in 1..Len(rows) : i < j /\ VinText(rows[i]) # "" /\ VinText(rows[i]) = VinText(rows[j])

\* C2: for every non-empty VIN v of a raw record that passes filter 1, the
\* dataset holds exactly one record with VIN v, and it is the first raw record
\* with VIN v, whatever the later records with VIN v hold.
C2_FirstWins ==
    pc = "done" =>
      \A i \in 1..Len(rows) :
        (/\ VinText(rows[i]) # ""
         /\ (Len(Val(rows[i].vin)) = 17 \/ (rows[i].year # None /\ rows[i].make # None)))
        => LET same == {k \in 1..Len(rows) : VinText(rows[k]) = VinText(rows[i])}
               kept == {j \in 1..Len(out) : VinText(out[j]) = VinText(rows[i])}
           IN /\ Cardinality(kept) = 1
              /\ \A j \in kept : out[j] = rows[Least(same)]

\* the first raw record of a VIN has no price, a later one of the same VIN has
\* one, and the dataset holds the first
C2_Witness ==
    /\ pc = "done"
    /\ \E i, j \in 1..Len(rows) :
         /\ i < j
         /\ VinText(rows[i]) # "" /\ VinText(rows[i]) = VinText(rows[j])
         /\ rows[i].price = None /\ rows[j].price # None
         /\ \E k \in 1..Len(out) : out[k] = rows[i]

\* C3: every record of the dataset has a VIN of 17 characters or both year and
\* make, and has a non-empty VIN, a price or a mileage; a raw record with no
\* VIN, no price, no mileage, no year and no make is not in the dataset.
C3_KeptRecords ==
    pc = "done" =>
      /\ \A j \in 1..Len(out) :
           /\ Len(VinText(out[j])) = 17 \/ (out[j].year # None /\ out[j].make # None)
           /\ ~NoUsefulData(out[j])
      /\ \A i \in 1..Len(rows) :
           (NoUsefulData(rows[i]) /\ rows[i].year = None /\ rows[i].make = None)
           => \A j \in 1..Len(out) : out[j].source_url # rows[i].source_url

\* the raw list holds a record with nothing in it and a record with year and
\* make but no VIN, price or mileage; the dataset is not empty and holds neither
C3_Witness ==
    /\ pc = "done"
    /\ out # <<>>
    /\ \E i \in 1..Len(rows) : NoUsefulData(rows[i]) /\ rows[i].year = None /\ rows[i].make = None
    /\ \E i \in 1..Len(rows) :
         /\ NoUsefulData(rows[i]) /\ rows[i].year # None /\ rows[i].make # None
         /\ \A j \in 1..Len(out) : out[j].source_url # rows[i].source_url

\* C4: the four filters applied to the dataset run() returns give the same
\* records in the same order.
C4_Idempotent == pc = "done" => Pipeline(out) = out

\* the filters dropped a raw record and kept two
C4_Witness == pc = "done" /\ Len(out) >= 2 /\ Len(out) < Len(rows)

\* C5: a URL whose lower-cased text contains a blacklist token is rejected by
\* the classifier, whatever else it matches.
C5_BlacklistWins ==
    pc = "classified" =>
      ((\E i \in 1..Len(blacklist_patterns) : Contains(MapLower(candidate), blacklist_patterns[i]))
       => verdict = FALSE)

\* a rejected URL that holds a blacklist token and has the /used/ detail-page shape
C5_Witness ==
    /\ pc = "classified"
    /\ verdict = FALSE
    /\ \E i \in 1..Len(blacklist_patterns) : Contains(MapLower(candidate), blacklist_patterns[i])
    /\ Search(IdRe, MapLower(candidate), FALSE).ok
    /\ Search(UsedRe, MapLower(candidate), FALSE).ok

\* the detail URL of Scenario A
ScenarioAUrl == "https://dealer.example.com/used/2021-Toyota-Camry-id1234567.html"

\* C6: the URL of Scenario A, on host dealer.example.com, is classified valid.
C6_ScenarioA == (pc = "classified" /\ candidate = ScenarioAUrl) => verdict = TRUE

\* C7: every URL that link discovery has collected or returned has the host of
\* the inventory URL, compared in lower case.
C7_SameHost ==
    LET host == MapLower(UrlNetloc(inventory))
    IN \A u \in collected \cup {links[i] : i \in 1..Len(links)} : MapLower(UrlNetloc(u)) = host

\* the page scanned last has an anchor of another host with a detail-page URL,
\* which was not collected, next to a collected URL whose host is written in
\* another case than the inventory URL's
C7_Witness ==
    /\ pc \in {"next", "sorted"}
    /\ \E k \in 1..Len(dom) :
         /\ AbsoluteHref(inventory, dom[k]) # None
         /\ MapLower(UrlNetloc(Val(AbsoluteHref(inventory, dom[k])))) # MapLower(UrlNetloc(inventory))
         /\ likely_detail_url(Val(AbsoluteHref(inventory, dom[k])))
         /\ Val(AbsoluteHref(inventory, dom[k])) \notin collected
    /\ \E u \in collected : UrlNetloc(u) # UrlNetloc(inventory)

\* C8: a URL with the /new/ detail-page shape (4-digit year, make and model
\* joined by hyphens, -id with at least 7 digits, .html) is classified as the
\* same URL with /used/ in the place of /new/.
C8_NewShape ==
    pc = "classified" =>
      \A h \in UrlHosts, sl \in UrlSlugs, id \in UrlIds :
        (/\ candidate = h \o "/new/" \o sl \o id \o ".html"
         /\ Search(IdRe, MapLower(candidate), FALSE).ok
         /\ Search(NewRe, MapLower(candidate), FALSE).ok)
        => verdict = likely_detail_url(h \o "/used/" \o sl \o id \o ".html")

\* C9: the VIN of every record parse_detail returned to run() (the raw
\* records) and of every record of the dataset is absent or 17 characters of
\* the VIN alphabet.
C9_VinShape ==
    /\ \A i \in 1..Len(rows) : WellFormedVin(rows[i].vin)
    /\ \A j \in 1..Len(out) : WellFormedVin(out[j].vin)

\* parse_detail returned without a VIN from the page whose candidates are a
\* 17-character word with an I and an 18-character word (the page with the
\* mileage 3,139 km), and the dataset holds a record with a VIN
C9_Witness ==
    /\ pc = "done"
    /\ \E i \in 1..Len(rows) : rows[i].vin = None /\ rows[i].mileage = Some("3,139 km")
    /\ \E j \in 1..Len(out) : Len(VinText(out[j])) = 17

\* the amount of a stored price: the digits of the string
StoredAmount(price) == DigitsValue(RemoveChar(RemoveChar(price, "$"), ","))

\* C10: a price stored by parse_detail of scraper_pro.py or by
\* scrape_detail_page of scraper.py is an amount from 5000 to 200000.
C10_PriceInRange ==
    /\ (pc = "parsed" /\ Val(lastRec).price # None)
       => (5000 <= StoredAmount(Val(Val(lastRec).price)) /\ StoredAmount(Val(Val(lastRec).price)) <= 200000)
    /\ (pc = "scraped" /\ Val(legacy).price # "")
       => (5000 <= StoredAmount(Val(legacy).price) /\ StoredAmount(Val(legacy).price) <= 200000)

\* the kilometres of a stored mileage: '3,139 km' of scraper_pro.py, '3139' of scraper.py
StoredKm(mileage) ==
    DigitsValue(RemoveChar(IF EndsWith(mileage, " km") THEN SubSeq(mileage, 1, Len(mileage) - 3)
                           ELSE mileage, ","))

\* C11: a mileage stored by parse_detail of scraper_pro.py or by
\* scrape_detail_page of scraper.py is a number of kilometres from 1 to 500000.
C11_MileageInRange ==
    /\ (pc = "parsed" /\ Val(lastRec).mileage # None)
       => (1 <= StoredKm(Val(Val(lastRec).mileage)) /\ StoredKm(Val(Val(lastRec).mileage)) <= 500000)
    /\ (pc = "scraped" /\ Val(legacy).mileage_km # "")
       => (1 <= StoredKm(Val(legacy).mileage_km) /\ StoredKm(Val(legacy).mileage_km) <= 500000)

\* the kilometre figures that the pages show after a label
KmFigures == {"3,139", "3139", "900,000", "92,968"}

\* '<label>: <figure> km'
Labelled(label, figure) == label \o ": " \o figure \o " km"

\* the page text shows the in-range figure n after 'Kilometers:' and the
\* in-range figure m after 'Mileage:'
ShowsBoth(text, n, m) ==
    /\ KmInRange(Amount(n)) /\ KmInRange(Amount(m))
    /\ Contains(text, Labelled("Kilometers", n))
    /\ Contains(text, Labelled("Mileage", m))

\* C12: when the page text shows an in-range figure after 'Kilometers:' and
\* an in-range figure after 'Mileage:', the mileage parse_detail stores is the
\* Kilometers figure, whichever comes first and whichever is smaller.
C12_KilometersWins ==
    pc = "parsed" =>
      \A n, m \in KmFigures :
        ShowsBoth(full_text_of(shown), n, m) => StoredKm(OrEmpty(Val(lastRec).mileage)) = Amount(n)

\* C13: a decode_vin call returns (it never raises); for a VIN that is not
\* 17 characters long it returns the all-absent result and has sent no
\* request; for a request that raised (timeout, transport), a status other
\* than 200 or a malformed body (not JSON, no "Results") it returns the
\* all-absent result.
C13_DecodeNeverRaises ==
    /\ pc \in {"decode", "decoded"}
    /\ pc = "decoded" =>
         /\ DOMAIN Val(decoded) = {"vin_make", "vin_model", "vin_year", "vin_trim", "vin_body_style"}
         /\ Len(vinArg) # 17 => (requests = 0 /\ \A f \in DOMAIN Val(decoded) : Val(decoded)[f] = None)
         /\ (answer.exc \/ answer.status # 200 \/ ~answer.results)
            => \A f \in DOMAIN Val(decoded) : Val(decoded)[f] = None

\* a call with a VIN of 17 characters sent one request, got a 404 whose body
\* reads like a decoded VIN, and returned the all-absent result
C13_Witness ==
    /\ pc = "decoded"
    /\ Len(vinArg) = 17 /\ requests = 1
    /\ answer.status = 404 /\ answer.results /\ answer.lookup # <<>>
    /\ \A f \in DOMAIN Val(decoded) : Val(decoded)[f] = None

\* C14: the scraped year, make, model and trim of the record parse_detail
\* returns are those of the page title (none for a page without a title),
\* whether the VIN decode succeeded, failed or was skipped: the decoded values
\* go to vin_year, vin_make, vin_model and vin_trim only.
C14_DecodeFrame ==
    pc = "parsed" =>
      /\ shown.title = ""
         => /\ Val(lastRec).year = None /\ Val(lastRec).make = None
            /\ Val(lastRec).model = None /\ Val(lastRec).trim = None
      /\ shown.title = "2021 Toyota Camry LE"
         => /\ Val(lastRec).year = Some("2021") /\ Val(lastRec).make = Some("Toyota")
            /\ Val(lastRec).model = Some("Camry") /\ Val(lastRec).trim = Some("LE")

\* the decode succeeded with another year, make and model than the title's:
\* the record holds both
C14_Witness ==
    /\ pc = "parsed"
    /\ Val(lastRec).vin_year = Some("2003") /\ Val(lastRec).vin_make = Some("HONDA")
    /\ Val(lastRec).vin_model = Some("Accord")
    /\ Val(lastRec).year = Some("2021") /\ Val(lastRec).make = Some("Toyota")
    /\ Val(lastRec).model = Some("Camry")

\* C15: one call of load() makes at most 3 navigate attempts; no attempt
\* follows a successful one, load() returns right after it; load() raises
\* only after a third failed attempt, and a third failed attempt makes it raise.
C15_BoundedRetry ==
    /\ Len(tries) <= 3
    /\ \A i \in 1..(Len(tries) - 1) : tries[i] = FALSE
    /\ pc = "load" => (Len(tries) < 3 /\ \A i \in 1..Len(tries) : tries[i] = FALSE)
    /\ pc = "detect" => (tries # <<>> /\ tries[Len(tries)] = TRUE)
    /\ (pc = "raised" /\ tries # <<>>) => (Len(tries) = 3 /\ tries[3] = FALSE)
    /\ (Len(tries) = 3 /\ tries[3] = FALSE) => pc = "raised"

\* load() has returned after two failed attempts and a successful third one
C15_Witness == pc = "detect" /\ tries = <<FALSE, FALSE, TRUE>>

\* C16: the extraction loop handles every URL of the limited link list once,
\* in list order, whether its navigation failed or not; the dataset holds no
\* record of a URL whose navigation failed (for which the handler appended
\* the stub record).
C16_LoopContinues ==
    /\ pc \in {"extract", "done"}
       => /\ idx <= Len(links) /\ Len(rows) = idx
          /\ \A i \in 1..idx : rows[i].source_url = links[i]
    /\ pc = "done"
       => /\ idx = Len(links)
          /\ \A i \in 1..Len(rows) :
               rows[i] = EmptyRecord(links[i]) => \A j \in 1..Len(out) : out[j].source_url # links[i]

\* the navigation of the first URL failed, the second URL was parsed and its
\* record is in the dataset
C16_Witness ==
    /\ pc = "done"
    /\ Len(rows) >= 2
    /\ rows[1] = EmptyRecord(links[1])
    /\ \E j \in 1..Len(out) : out[j].source_url = links[2]

\* C17: once the browser session exists, run() does not raise.
C17_NeverRaises == session = "open" => pc # "raised"

\* C19: on a paginated platform the passes number at most max_pages; the
\* next control is only tried while the collected set is below max_links;
\* discovery ends before max_pages passes only with the collected set at
\* max_links or more, or after a next control that could not be activated.
C19_PassBound ==
    /\ pc \in {"pass", "next", "sorted"} => (1 <= pageNo /\ pageNo <= cfg.max_pages)
    /\ pc = "next" => (Paginated(platform) /\ Cardinality(collected) < cfg.max_links)
    /\ (pc = "sorted" /\ Paginated(platform) /\ pageNo < cfg.max_pages)
       => (Cardinality(collected) >= cfg.max_links \/ ~nextOk)

\* discovery ended after one pass of two, below the cap, because no next
\* control could be activated
C19_Witness ==
    /\ pc = "sorted" /\ Paginated(platform)
    /\ pageNo = 1 /\ cfg.max_pages = 2
    /\ ~nextOk /\ Cardinality(collected) < cfg.max_links

\* a list of strings in strictly ascending order
Ascending(ls) == \A i, j \in 1..Len(ls) : i < j => StrLess(ls[i], ls[j])

\* the list run() works on when collect_detail_links has returned: the
\* collected URLs in ascending order, each once; with a limit, the first of them
ReturnedSorted ==
    (pc = "extract" /\ idx = 0) =>
      /\ Ascending(links)
      /\ {links[i] : i \in 1..Len(links)} \subseteq collected
      /\ \A u \in collected \ {links[i] : i \in 1..Len(links)} :
           \A i \in 1..Len(links) : StrLess(links[i], u)
      /\ (cfg.limit = None \/ cfg.limit = Some(0)) => Len(links) = Cardinality(collected)
      /\ (cfg.limit # None /\ cfg.limit # Some(0))
         => (Len(links) = Val(cfg.limit) \/ Len(links) = Cardinality(collected))

\* a pass adds the URLs accepted in the DOM it scanned to the collected set,
\* and nothing else changes the set
MergesAccepted ==
    /\ (pc = "pass" /\ pc' # "raised")
       => collected' = collected \cup CollectTable[inventory, dom']
    /\ (pc # "pass" \/ pc' = "raised") => collected' = collected

\* C20: collect_detail_links returns the union of the URLs accepted on all
\* passes, each once, in ascending order, whatever the pass and the place in
\* the DOM where a URL was found.
C20_SortedUnion == []ReturnedSorted /\ [][MergesAccepted]_vars

\* two passes were made and the returned list holds two URLs or more
C20_Witness ==
    /\ pc = "extract" /\ idx = 0
    /\ pageNo = 2 /\ Len(links) >= 2 /\ cfg.limit = None

\* C18: when the creation of the browser session fails, the constructor of
\* ProductionVehicleScraper raises with nothing loaded, collected or parsed,
\* scrape_all_vehicles_multi returns the empty list with no URL visited and
\* one call of error_callback, and no further step of either program follows.
C18_SessionFailure ==
    session = "failed" =>
      /\ pc \in {"init_raised", "returned"}
      /\ ~ENABLED NextSession
      /\ pc = "init_raised"
         => /\ tries = <<>> /\ dom = <<>> /\ collected = {} /\ pageNo = 0
            /\ links = <<>> /\ idx = 0 /\ rows = <<>> /\ out = <<>>
      /\ pc = "returned"
         => /\ visited = <<>> /\ urlIdx = 0 /\ links = <<>> /\ rows = <<>> /\ out = <<>>
            /\ errors = (IF cfg.error_callback THEN <<"Failed to create Chrome driver">> ELSE <<>>)

\* scrape_all_vehicles_multi was given two base URLs and an error_callback,
\* create_driver returned no driver: one error is reported and [] returned
C18_Witness ==
    /\ pc = "returned" /\ session = "failed"
    /\ Len(cfg.base_urls) = 2 /\ cfg.error_callback
    /\ errors = <<"Failed to create Chrome driver">> /\ visited = <<>> /\ out = <<>>

\* the number of anchors of a DOM whose href holds the token
AnchorsWith(hrefs, token) == Cardinality({i \in 1..Len(hrefs) : Contains(hrefs[i], token)})

\* C21: on the page loaded first, detect_platform answers dealer.com when 5
\* anchors or more have .htm in their href, whatever the number of -id
\* anchors; d2cmedia when fewer than 5 have .htm and 3 or more have -id;
\* generic otherwise.
C21_PlatformThresholds ==
    (pc = "pass" /\ pageNo = 1) =>
      /\ AnchorsWith(dom, ".htm") >= 5 => platform = "dealer.com"
      /\ (AnchorsWith(dom, ".htm") < 5 /\ AnchorsWith(dom, "-id") >= 3) => platform = "d2cmedia"
      /\ (AnchorsWith(dom, ".htm") < 5 /\ AnchorsWith(dom, "-id") < 3) => platform = "generic"

\* exactly 5 anchors with .htm, 3 or more of them with -id as well: dealer.com
C21_Witness ==
    /\ pc = "pass" /\ pageNo = 1
    /\ AnchorsWith(dom, ".htm") = 5 /\ AnchorsWith(dom, "-id") >= 3
    /\ platform = "dealer.com"

\* C22: the list collect_detail_links returns holds at most max_links URLs.
C22_ListWithinCap == pc = "sorted" => Cardinality(collected) <= cfg.max_links

\* C23: when discovery found no detail URL, run() returns an empty dataset.
C23_EmptyDiscoveryReturns ==
    [][(pc = "extract" /\ links = <<>> /\ collected = {}) => (pc' = "done" /\ out' = <<>>)]_vars

\* C24: with a limit n >= 0, run() navigates to and parses at most n detail
\* pages; without a limit it parses every link that was discovered.
C24_LimitBoundsParsing ==
    /\ (pc \in {"extract", "done"} /\ cfg.limit # None) => idx <= Val(cfg.limit)
    /\ (pc = "done" /\ cfg.limit = None) => idx = Cardinality(collected)

\* C25: within one load() call the wait before attempt 3 is twice the wait
\* before attempt 2.
C25_BackoffDoubles == Len(waits) >= 2 => waits[2] = 2 * waits[1]

\* the figures the pages show after a '$', digits in groups of three
\* separated by commas
CurrencyFigures == {"19,888", "21,999", "250,000", "4,500", "18,500"}

\* the figures of the page text that are currency-formatted and in range
PricesShown(text) ==
    {g \in CurrencyFigures : Contains(text, "$" \o g) /\ 5000 <= Amount(g) /\ Amount(g) <= 200000}

\* no 'Price:' or 'ONE PRICE:' label is followed by an in-range figure and no
\* element with 'price' in its class holds one
NoLabelledPrice(page) ==
    /\ \A g \in PricesShown(full_text_of(page)) :
         /\ ~Contains(full_text_of(page), "Price: " \o g)
         /\ ~Contains(full_text_of(page), "Price: $" \o g)
         /\ ~Contains(full_text_of(page), "PRICE: $" \o g)
    /\ \A i \in 1..Len(page.nodes) :
         Contains(MapLower(page.nodes[i].cls), "price") => PricesShown(page.nodes[i].text) = {}

\* C26: when no labelled pattern and no price-classed element gives an
\* in-range price, the price parse_detail stores is the largest in-range
\* currency-formatted number of the page ('$' and comma-grouped digits), and
\* no price is stored when the page shows none.
C26_PriceLastResort ==
    (pc = "parsed" /\ NoLabelledPrice(shown)) =>
      /\ PricesShown(full_text_of(shown)) = {} => Val(lastRec).price = None
      /\ \A g \in PricesShown(full_text_of(shown)) :
           (\A h \in PricesShown(full_text_of(shown)) : Amount(h) <= Amount(g))
           => Val(lastRec).price = Some("$" \o g)

\* the page shows $19,888 before $21,999 and the price stored is $21,999
C26_Witness ==
    /\ pc = "parsed" /\ NoLabelledPrice(shown)
    /\ shown.nodes = <<Node("Now $19,888", ""), Node("Was $21,999", "")>>
    /\ Val(lastRec).price = Some("$21,999")

\* the figures the pages show before 'km'
KmSuffixed == {"100,000", "45,000", "850", "600,000", "700,000", "12,345"}

\* the km-suffixed figures of the page text that are in range
DistancesShown(text) ==
    {g \in KmSuffixed : Contains(text, g \o " km") /\ 1 <= Amount(g) /\ Amount(g) <= 500000}

\* no 'Kilometers:', 'Mileage:' or 'Odometer:' label is followed by an
\* in-range figure and no element with 'mileage' or 'kilometer' in its class
\* holds one
NoLabelledKm(page) ==
    /\ \A g \in DistancesShown(full_text_of(page)) :
         \A label \in {"Kilometers", "Mileage", "Odometer"} :
           ~Contains(full_text_of(page), Labelled(label, g))
    /\ \A i \in 1..Len(page.nodes) :
         (Contains(MapLower(page.nodes[i].cls), "mileage")
            \/ Contains(MapLower(page.nodes[i].cls), "kilometer"))
         => DistancesShown(page.nodes[i].text) = {}

\* C27: when no labelled pattern and no mileage-classed element gives an
\* in-range mileage, the mileage parse_detail stores is the smallest in-range
\* km-suffixed figure of the page, and no mileage is stored when the page
\* shows none.
C27_MileageLastResort ==
    (pc = "parsed" /\ NoLabelledKm(shown)) =>
      /\ DistancesShown(full_text_of(shown)) = {} => Val(lastRec).mileage = None
      /\ \A g \in DistancesShown(full_text_of(shown)) :
           (\A h \in DistancesShown(full_text_of(shown)) : Amount(g) <= Amount(h))
           => Val(lastRec).mileage = Some(g \o " km")

\* C30: the transmission parse_detail stores is Automatic, Manual, CVT or
\* absent, and the drivetrain is AWD, FWD, RWD, 4WD or absent.
C30_Enumerations ==
    pc = "parsed" =>
      /\ Val(lastRec).transmission \in {None, Some("Automatic"), Some("Manual"), Some("CVT")}
      /\ Val(lastRec).drivetrain \in {None, Some("AWD"), Some("FWD"), Some("RWD"), Some("4WD")}

\* the decimal numerals of lo..hi
Numerals(lo, hi) == {d \in {"0", "1", "2", "3", "4", "5", "6", "7", "8", "9", "10", "11", "12", "13",
                             "14", "15", "16", "40", "50"} : lo <= DigitsValue(d) /\ DigitsValue(d) <= hi}

\* C28: in every record scrape_detail_page returns, doors is empty or a
\* number of 2..6 and passengers is empty or a number of 2..15, whether a
\* text pattern or a JSON-LD block gave the value.
C28_DoorsPassengersInRange ==
    pc = "scraped" =>
      /\ Val(legacy).doors \in {""} \cup Numerals(2, 6)
      /\ Val(legacy).passengers \in {""} \cup Numerals(2, 15)

\* the fields the JSON-LD blocks can fill, and the key of a block each one is read from
BackfilledFields == {"ext_color", "fuel_type", "body_style", "doors", "passengers", "transmission",
                     "drivetrain", "condition"}

\* what a block offers for a field: the value of its key, and for the
\* condition New or Used as its itemCondition names one
Offered(b, field) ==
    IF ~b.ok \/ b.type \notin {"Vehicle", "Car", "Product"} THEN ""
    ELSE CASE field = "ext_color" -> b.color
           [] field = "fuel_type" -> b.fuelType
           [] field = "body_style" -> b.bodyType
           [] field = "doors" -> b.numberOfDoors
           [] field = "passengers" -> b.vehicleSeatingCapacity
           [] field = "transmission" -> b.vehicleTransmission
           [] field = "drivetrain" -> b.driveWheelConfiguration
           [] field = "condition" -> IF Contains(b.itemCondition, "New") THEN "New"
                                     ELSE IF Contains(b.itemCondition, "Used") THEN "Used" ELSE ""

\* the blocks of a page that offer a value for the field, in document order
Offering(blocks, field) == SelectSeq(blocks, LAMBDA b : Offered(b, field) # "")

\* data keeps every field the text gave, and a field the text left empty
\* holds what the first block offering a value offers
KeepsFirstValue(from_text, data, blocks) ==
    \A field \in BackfilledFields :
        /\ from_text[field] # "" => data[field] = from_text[field]
        /\ (from_text[field] = "" /\ Offering(blocks, field) # <<>>)
           => data[field] = Offered(Head(Offering(blocks, field)), field)

\* C29: the JSON-LD backfill never overwrites: a field that is non-empty
\* after the text patterns keeps its value through all the blocks, and a
\* field an earlier block filled is not replaced by a later block.
C29_BackfillNeverOverwrites ==
    (pc = "scraped" /\ Val(legacy) # EmptyData(Val(legacy).url))
    => KeepsFirstValue(ScrapedData(Val(legacy).url, LegacyOf(shown)), Val(legacy), shown.ld)

\* a page whose text gives the colour Red and whose two blocks offer Green and
\* Blue, 2 and 8 doors: the record keeps Red and the 2 doors of the first block
C29_Witness ==
    /\ pc = "scraped"
    /\ shown = MkLdPage(<<Node("Exterior Colour: Red", ""), Node("Fuel Type: Diesel", ""),
                          Node("Body Style: SUV", "")>>, <<CarBlock, VehicleBlock>>)
    /\ Val(legacy).ext_color = "Red"
    /\ Val(legacy).doors = "2"
    /\ Val(legacy).passengers = "50"

====
